---------------------------- MODULE Spec2Model ----------------------------
(***************************************************************************)
(* Zigbee coordinator of the halo firmware: the persisted device registry  *)
(* (zigbee_devices.c) and the coordinator bring-up, finder mode and device *)
(* discovery (zigbee_hub.c).                                               *)
(***************************************************************************)
EXTENDS Integers, Sequences, FiniteSets, Bags, TLC

(***************************************************************************)
(* Program constants (zigbee_hub.h).                                       *)
(***************************************************************************)
ZIGBEE_MAX_DEVICES == 10
ZIGBEE_FINDER_TIMEOUT_SEC == 60
ZIGBEE_FINDER_SCAN_INTERVAL == 5

(***************************************************************************)
(* Bounds of the model.                                                    *)
(***************************************************************************)
\* distinct devices (ieee addresses) that announce or are upserted
MaxIeee == 2
\* distinct short addresses a device can hold
MaxShort == 2
\* storage writes (nvs_set_u8, nvs_set_blob, nvs_commit) that fail
MaxNvsFaults == 1
\* discovery queries in flight at the same time
MaxPending == 2
\* network formation attempts that fail
MaxFormationFailures == 2

(***************************************************************************)
(* Values.                                                                 *)
(***************************************************************************)
ESP_OK == "ESP_OK"
ESP_FAIL == "ESP_FAIL"
ESP_ERR_NO_MEM == "ESP_ERR_NO_MEM"
ESP_ERR_NOT_FOUND == "ESP_ERR_NOT_FOUND"
ESP_ERR_INVALID_SIZE == "ESP_ERR_INVALID_SIZE"
ESP_ERR_INVALID_STATE == "ESP_ERR_INVALID_STATE"

ZIGBEE_DEVICE_TYPE_UNKNOWN == "UNKNOWN"
ZIGBEE_DEVICE_TYPE_BLIND == "BLIND"
ZIGBEE_DEVICE_TYPE_LIGHT == "LIGHT"
ZIGBEE_DEVICE_TYPE_SWITCH == "SWITCH"
ZIGBEE_DEVICE_TYPE_TUYA_BLIND == "TUYA_BLIND"

ZIGBEE_STATE_INITIALIZING == "INITIALIZING"
ZIGBEE_STATE_FORMING_NETWORK == "FORMING_NETWORK"
ZIGBEE_STATE_FINDER_MODE == "FINDER_MODE"
ZIGBEE_STATE_RECONNECTING == "RECONNECTING"
ZIGBEE_STATE_READY == "READY"
ZIGBEE_STATE_FAILED == "FAILED"

\* an ieee_addr[8] is modelled by a number: memcmp(a, b, 8) == 0 is a = b
Ieee == 1..MaxIeee
ShortAddrs == 1..MaxShort
Slots == 0..(ZIGBEE_MAX_DEVICES - 1)

\* zigbee_device_t
zigbee_device_t(short, ieee, ep, type, online, pos) ==
    [short_addr |-> short, ieee_addr |-> ieee, endpoint |-> ep,
     device_type |-> type, is_online |-> online, current_position |-> pos]

\* a zero-initialised zigbee_device_t (static storage)
ZeroDevice == zigbee_device_t(0, 0, 0, ZIGBEE_DEVICE_TYPE_UNKNOWN, FALSE, 0)

VARIABLES
    \* zigbee_devices.c
    s_devices,          \* [Slots -> zigbee_device_t]
    s_device_count,     \* int
    s_nvs_handle,       \* 0 until nvs_open succeeded
    nvs,                \* the "zigbee_dev" namespace of the flash store
    \* zigbee_hub.c
    s_network_ready,
    s_zigbee_state,
    s_finder_timer,     \* TRUE while the esp_timer handle is not NULL
    s_finder_elapsed_sec,
    s_finder_complete,
    s_device_paired_during_finder,
    s_discovery_ctx,    \* device_discovery_ctx_t
    s_tuya_seq,         \* uint8_t
    s_blind_position_percent,   \* uint8_t
    s_blind_position_known,
    \* the mesh stack, as the coordinator observes it
    bdb,                \* commissioning step whose signal is due next
    factory_new,        \* esp_zb_bdb_is_factory_new()
    zdo_pending,        \* bag of ZDO queries whose callback is due
    \* observation of the last step
    last,               \* the handler that ran, its arguments and result
    stack_calls,        \* the mesh stack calls it made, in order
    transitions,        \* the values it assigned to s_zigbee_state, in order
    \* history
    finderTicks,        \* runs of finder_mode_timer_callback in this session
    ctxUpserts,         \* upserts made for the current discovery context
    nvsFaults,          \* storage writes that failed
    formationFailures,  \* formation attempts that failed
    commands,           \* dispatcher commands and reports handled
    \* the two tasks that touch the registry
    zb_task,            \* "zigbee_main": where it is inside zigbee_devices_add
    cmd_task,           \* the command task: where it is inside a dispatch
    tuya_prev_seq,      \* frame[1] of the last Tuya frame sent, -1 for none
    \* the scan timer, and the timer service that runs both timers
    s_scan_timer,       \* TRUE while the esp_timer handle is not NULL
    s_scan_interval_sec,    \* uint16_t
    scan_timers_live,   \* scan timers created and not yet deleted
    timer_task,         \* "esp_timer": where it is inside a finder tick
    finder_timer_deletes,   \* esp_timer_delete calls on the finder timer
                        \* made by the step-wise tick and callback
    args              \* what the last handler was called with: the simple
                        \* descriptor, the dispatcher arguments or the
                        \* report bytes; <<>> for the other handlers

vars == <<s_devices, s_device_count, s_nvs_handle, nvs,
          s_network_ready, s_zigbee_state, s_finder_timer,
          s_finder_elapsed_sec, s_finder_complete,
          s_device_paired_during_finder, s_discovery_ctx, s_tuya_seq,
          bdb, factory_new, zdo_pending,
          last, stack_calls, transitions,
          finderTicks, ctxUpserts, nvsFaults, formationFailures,
          s_blind_position_percent, s_blind_position_known, commands,
          zb_task, cmd_task, tuya_prev_seq, args,
          s_scan_timer, s_scan_interval_sec, scan_timers_live, timer_task,
          finder_timer_deletes>>

regVars == <<s_devices, s_device_count, s_nvs_handle, nvs>>
hubVars == <<s_network_ready, s_zigbee_state, s_finder_timer,
             s_finder_elapsed_sec, s_finder_complete,
             s_device_paired_during_finder, s_discovery_ctx, s_tuya_seq>>
stackVars == <<bdb, factory_new, zdo_pending>>
reportVars == <<s_blind_position_percent, s_blind_position_known>>
taskVars == <<zb_task, cmd_task>>
timerVars == <<s_scan_timer, s_scan_interval_sec, scan_timers_live,
               timer_task, finder_timer_deletes>>

\* a task that is not inside a registry access
IdleTask == [pc |-> "idle"]


(***************************************************************************)
(* Persistent storage: the NVS namespace "zigbee_dev" holds the key        *)
(* "dev_count" (u8) and the blobs "dev_0", "dev_1", ...                    *)
(***************************************************************************)
EmptyStore ==
    [has_count |-> FALSE, count |-> 0, has_dev |-> {},
     dev |-> [i \in Slots |-> ZeroDevice]]

\* an outcome of the storage writes of one zigbee_devices_save: the write that
\* fails, if any
Fault(kind, index) == [kind |-> kind, index |-> index]
NoFault == Fault("none", 0)
SaveFaults(n) ==
    {NoFault, Fault("count", 0), Fault("commit", 0)}
        \cup {Fault("blob", i) : i \in 0..(n - 1)}

\* nvs_set_u8(NVS_KEY_COUNT) and nvs_save_device(i) for i < upto
StoreWrite(store, devs, n, upto) ==
    [has_count |-> TRUE,
     count |-> n % 256,
     has_dev |-> store.has_dev \cup {i \in Slots : i < upto},
     dev |-> [i \in Slots |-> IF i < upto THEN devs[i] ELSE store.dev[i]]]

\* variant of zigbee_devices_save whose loop stops one record early
zigbee_devices_save_skips_last(devs, n, handle, store, f) ==
    IF handle = 0 THEN [nvs |-> store, ret |-> ESP_ERR_INVALID_STATE]
    ELSE IF f.kind = "count" THEN [nvs |-> store, ret |-> ESP_FAIL]
    ELSE IF f.kind = "blob" /\ f.index < n
        THEN [nvs |-> StoreWrite(store, devs, n, f.index), ret |-> ESP_FAIL]
    ELSE IF f.kind = "commit"
        THEN [nvs |-> StoreWrite(store, devs, n, n), ret |-> ESP_FAIL]
    ELSE [nvs |-> StoreWrite(store, devs, n, IF n > 0 THEN n - 1 ELSE 0),
          ret |-> ESP_OK]

\* zigbee_devices_save: the store and the status it returns
zigbee_devices_save(devs, n, handle, store, f) ==
    IF handle = 0 THEN [nvs |-> store, ret |-> ESP_ERR_INVALID_STATE]
    ELSE IF f.kind = "count" THEN [nvs |-> store, ret |-> ESP_FAIL]
    ELSE IF f.kind = "blob" /\ f.index < n
        THEN [nvs |-> StoreWrite(store, devs, n, f.index), ret |-> ESP_FAIL]
    ELSE IF f.kind = "commit"
        THEN [nvs |-> StoreWrite(store, devs, n, n), ret |-> ESP_FAIL]
    ELSE [nvs |-> StoreWrite(store, devs, n, n), ret |-> ESP_OK]

\* the loop of zigbee_devices_init: slot i of the store is copied to
\* s_devices[cnt] when its blob is present
RECURSIVE LoadLoop(_, _, _, _, _)
LoadLoop(store, i, count, devs, cnt) ==
    IF i >= count THEN [devices |-> devs, count |-> cnt]
    ELSE IF i \in store.has_dev
        THEN LoadLoop(store, i + 1, count,
                      [devs EXCEPT ![cnt] = store.dev[i]], cnt + 1)
        ELSE LoadLoop(store, i + 1, count, devs, cnt)

\* zigbee_devices_init: the registry it leaves in memory
zigbee_devices_init(store, devs, cnt) ==
    IF ~store.has_count THEN [devices |-> devs, count |-> 0]
    ELSE LET count == IF store.count > ZIGBEE_MAX_DEVICES
                      THEN ZIGBEE_MAX_DEVICES ELSE store.count
         IN  LoadLoop(store, 0, count, devs, 0)

\* index of the first slot below n whose ieee_addr is ieee, or -1
RECURSIVE FindIeee(_, _, _, _)
FindIeee(devs, n, ieee, i) ==
    IF i >= n THEN -1
    ELSE IF devs[i].ieee_addr = ieee THEN i
    ELSE FindIeee(devs, n, ieee, i + 1)

\* index of the first slot below n whose short_addr is short, or -1
RECURSIVE FindShort(_, _, _, _)
FindShort(devs, n, short, i) ==
    IF i >= n THEN -1
    ELSE IF devs[i].short_addr = short THEN i
    ELSE FindShort(devs, n, short, i + 1)

\* variant of zigbee_devices_add that reuses the last slot when the registry
\* is full
zigbee_devices_add_overwrites_when_full(devs, n, handle, store, device, f) ==
    LET i == FindIeee(devs, n, device.ieee_addr, 0) IN
    IF i >= 0 THEN
        LET d2 == [devs EXCEPT ![i] = device]
            sv == zigbee_devices_save(d2, n, handle, store, f)
        IN  [devices |-> d2, count |-> n, nvs |-> sv.nvs, ret |-> sv.ret]
    ELSE IF n >= ZIGBEE_MAX_DEVICES THEN
        LET d2 == [devs EXCEPT ![n - 1] = device]
            sv == zigbee_devices_save(d2, n, handle, store, f)
        IN  [devices |-> d2, count |-> n, nvs |-> sv.nvs, ret |-> sv.ret]
    ELSE
        LET d2 == [devs EXCEPT ![n] = device]
            sv == zigbee_devices_save(d2, n + 1, handle, store, f)
        IN  [devices |-> d2, count |-> n + 1, nvs |-> sv.nvs, ret |-> sv.ret]

\* zigbee_devices_add: registry, store and status after the call
zigbee_devices_add(devs, n, handle, store, device, f) ==
    LET i == FindIeee(devs, n, device.ieee_addr, 0) IN
    IF i >= 0 THEN
        LET d2 == [devs EXCEPT ![i] = device]
            sv == zigbee_devices_save(d2, n, handle, store, f)
        IN  [devices |-> d2, count |-> n, nvs |-> sv.nvs, ret |-> sv.ret]
    ELSE IF n >= ZIGBEE_MAX_DEVICES THEN
        [devices |-> devs, count |-> n, nvs |-> store, ret |-> ESP_ERR_NO_MEM]
    ELSE
        LET d2 == [devs EXCEPT ![n] = device]
            sv == zigbee_devices_save(d2, n + 1, handle, store, f)
        IN  [devices |-> d2, count |-> n + 1, nvs |-> sv.nvs, ret |-> sv.ret]

\* variant of ShiftDown that shifts every slot, so that slot 0 is lost
ShiftDown_drops_head(devs, n, i) ==
    [j \in Slots |-> IF j < n - 1 THEN devs[j + 1] ELSE devs[j]]

\* the shift loop of zigbee_devices_remove: slots i..n-2 take their successor
ShiftDown(devs, n, i) ==
    [j \in Slots |-> IF j >= i /\ j < n - 1 THEN devs[j + 1] ELSE devs[j]]

\* zigbee_devices_remove
zigbee_devices_remove(devs, n, handle, store, short, f) ==
    LET i == FindShort(devs, n, short, 0) IN
    IF i < 0 THEN
        [devices |-> devs, count |-> n, nvs |-> store, ret |-> ESP_ERR_NOT_FOUND]
    ELSE
        LET d2 == ShiftDown(devs, n, i)
            sv == zigbee_devices_save(d2, n - 1, handle, store, f)
        IN  [devices |-> d2, count |-> n - 1, nvs |-> sv.nvs, ret |-> sv.ret]

\* zigbee_devices_get_by_addr: the record found, or ZeroDevice for NULL
zigbee_devices_get_by_addr(devs, n, short) ==
    LET i == FindShort(devs, n, short, 0) IN
    IF i < 0 THEN ZeroDevice ELSE devs[i]

\* zigbee_devices_get_count
zigbee_devices_get_count == s_device_count


(***************************************************************************)
(* The devices in radio range. What a device answers to the discovery      *)
(* queries is fixed by the device: its endpoint list and the simple        *)
(* descriptor of its endpoints.                                            *)
(***************************************************************************)
ESP_ZB_ZCL_CLUSTER_ID_ON_OFF == 6
ESP_ZB_ZCL_CLUSTER_ID_WINDOW_COVERING == 258
TUYA_PRIVATE_CLUSTER_ID == 61184
TUYA_CLUSTER_ID == 61184

EndpointsOf(ieee) ==
    IF ieee % 3 = 0 THEN <<2, 1>> ELSE <<1>>

DescriptorOf(ieee) ==
    CASE ieee % 3 = 1 ->
            [app_device_id |-> 81,
             app_input_cluster_count |-> 2,
             app_cluster_list |-> <<0, TUYA_PRIVATE_CLUSTER_ID>>]
      [] ieee % 3 = 2 ->
            [app_device_id |-> 514,
             app_input_cluster_count |-> 2,
             app_cluster_list |-> <<ESP_ZB_ZCL_CLUSTER_ID_ON_OFF,
                                    ESP_ZB_ZCL_CLUSTER_ID_WINDOW_COVERING>>]
      [] OTHER ->
            [app_device_id |-> 256,
             app_input_cluster_count |-> 2,
             app_cluster_list |-> <<0, ESP_ZB_ZCL_CLUSTER_ID_ON_OFF>>]

(***************************************************************************)
(* Mesh stack calls made by a handler.                                     *)
(***************************************************************************)
StackCall(fn, arg) == [fn |-> fn, arg |-> arg]
esp_zb_lock_acquire == StackCall("esp_zb_lock_acquire", 0)
esp_zb_lock_release == StackCall("esp_zb_lock_release", 0)
esp_zb_bdb_open_network(duration) ==
    StackCall("esp_zb_bdb_open_network", duration % 256)
esp_zb_nwk_get_next_neighbor == StackCall("esp_zb_nwk_get_next_neighbor", 0)
esp_zb_zdo_active_ep_req(addr) == StackCall("esp_zb_zdo_active_ep_req", addr)
esp_zb_zdo_simple_desc_req(addr) == StackCall("esp_zb_zdo_simple_desc_req", addr)
\* the vendor cluster command: destination, command id and payload bytes
esp_zb_zcl_custom_cluster_cmd_req(addr_short, dst_endpoint, custom_cmd_id, data) ==
    StackCall("esp_zb_zcl_custom_cluster_cmd_req",
              [addr_short |-> addr_short, dst_endpoint |-> dst_endpoint,
               cluster_id |-> TUYA_CLUSTER_ID,
               custom_cmd_id |-> custom_cmd_id, data |-> data])
\* the window covering cluster command: destination, command id and the
\* value it points to (<<>> for NULL)
esp_zb_zcl_window_covering_cluster_send_cmd_req(addr_short, dst_endpoint, cmd_id, value) ==
    StackCall("esp_zb_zcl_window_covering_cluster_send_cmd_req",
              [addr_short |-> addr_short, dst_endpoint |-> dst_endpoint,
               cmd_id |-> cmd_id, value |-> value])
start_commissioning_FORMATION ==
    StackCall("esp_zb_bdb_start_top_level_commissioning:NETWORK_FORMATION", 0)
start_commissioning_STEERING ==
    StackCall("esp_zb_bdb_start_top_level_commissioning:NETWORK_STEERING", 0)
start_commissioning_INITIALIZATION ==
    StackCall("esp_zb_bdb_start_top_level_commissioning:INITIALIZATION", 0)

(***************************************************************************)
(* Finder mode. The finder state of zigbee_hub.c is passed as a record h   *)
(* so that start_finder_mode can run the timer callback inline, as the     *)
(* code does.                                                              *)
(***************************************************************************)
\* the sequence numbers (frame[1]) of the Tuya frames among calls, in order
RECURSIVE FrameSeqs(_, _)
FrameSeqs(calls, k) ==
    IF k > Len(calls) THEN <<>>
    ELSE IF calls[k].fn = "esp_zb_zcl_custom_cluster_cmd_req"
        THEN <<calls[k].arg.data[2]>> \o FrameSeqs(calls, k + 1)
    ELSE FrameSeqs(calls, k + 1)

\* the sequence number of the last Tuya frame sent, after calls were made
LastFrameSeq(prev, calls) ==
    LET fs == FrameSeqs(calls, 1)
    IN  IF fs = <<>> THEN prev ELSE fs[Len(fs)]

HubRec ==
    [state |-> s_zigbee_state, timer |-> s_finder_timer,
     elapsed |-> s_finder_elapsed_sec, complete |-> s_finder_complete,
     paired |-> s_device_paired_during_finder,
     calls |-> <<>>, trans |-> <<>>, ticks |-> finderTicks]

\* variant of stop_finder_mode that leaves the timer running
stop_finder_mode_keeps_timer(h, paired) ==
    [h EXCEPT !.paired = paired,
              !.complete = TRUE,
              !.state = ZIGBEE_STATE_READY,
              !.trans = Append(@, ZIGBEE_STATE_READY)]

\* stop_finder_mode(paired)
stop_finder_mode(h, paired) ==
    [h EXCEPT !.timer = FALSE,
              !.paired = paired,
              !.complete = TRUE,
              !.state = ZIGBEE_STATE_READY,
              !.trans = Append(@, ZIGBEE_STATE_READY)]

\* variant of finder_mode_timer_callback that times out one tick late
finder_mode_timer_callback_late(h, device_count) ==
    LET h1 == [h EXCEPT !.elapsed = @ + ZIGBEE_FINDER_SCAN_INTERVAL,
                        !.ticks = @ + 1]
    IN  IF device_count > 0 THEN stop_finder_mode(h1, TRUE)
        ELSE LET h2 == [h1 EXCEPT !.calls = @ \o
                          <<esp_zb_lock_acquire, esp_zb_nwk_get_next_neighbor,
                            esp_zb_lock_release,
                            esp_zb_bdb_open_network(ZIGBEE_FINDER_SCAN_INTERVAL + 2)>>]
             IN  IF h2.elapsed > ZIGBEE_FINDER_TIMEOUT_SEC
                 THEN stop_finder_mode(h2, FALSE)
                 ELSE h2

\* variant of finder_mode_timer_callback that does not look at the registry
finder_mode_timer_callback_scans_only(h, device_count) ==
    LET h1 == [h EXCEPT !.elapsed = @ + ZIGBEE_FINDER_SCAN_INTERVAL,
                        !.ticks = @ + 1]
        h2 == [h1 EXCEPT !.calls = @ \o
                 <<esp_zb_lock_acquire, esp_zb_nwk_get_next_neighbor,
                   esp_zb_lock_release,
                   esp_zb_bdb_open_network(ZIGBEE_FINDER_SCAN_INTERVAL + 2)>>]
    IN  IF h2.elapsed >= ZIGBEE_FINDER_TIMEOUT_SEC
        THEN stop_finder_mode(h2, device_count > 0)
        ELSE h2

\* finder_mode_timer_callback, with the registry count it reads
finder_mode_timer_callback(h, device_count) ==
    LET h1 == [h EXCEPT !.elapsed = @ + ZIGBEE_FINDER_SCAN_INTERVAL,
                        !.ticks = @ + 1]
    IN  IF device_count > 0 THEN stop_finder_mode(h1, TRUE)
        ELSE LET h2 == [h1 EXCEPT !.calls = @ \o
                          <<esp_zb_lock_acquire, esp_zb_nwk_get_next_neighbor,
                            esp_zb_lock_release,
                            esp_zb_bdb_open_network(ZIGBEE_FINDER_SCAN_INTERVAL + 2)>>]
             IN  IF h2.elapsed >= ZIGBEE_FINDER_TIMEOUT_SEC
                 THEN stop_finder_mode(h2, FALSE)
                 ELSE h2

\* outcomes of esp_timer_create and esp_timer_start_periodic
TimerOutcomes == {"ok", "create_failed", "start_failed"}

\* variant of start_finder_mode without the immediate first scan
start_finder_mode_no_first_scan(h, device_count, timer_outcome) ==
    LET h1 == [h EXCEPT !.state = ZIGBEE_STATE_FINDER_MODE,
                        !.trans = Append(@, ZIGBEE_STATE_FINDER_MODE),
                        !.elapsed = 0,
                        !.paired = FALSE,
                        !.complete = FALSE,
                        !.ticks = 0]
    IN  IF timer_outcome = "create_failed"
        THEN [h1 EXCEPT !.complete = TRUE]
        ELSE LET h2 == [h1 EXCEPT !.calls = @ \o
                          <<esp_zb_bdb_open_network(ZIGBEE_FINDER_TIMEOUT_SEC + 10)>>]
             IN  IF timer_outcome = "start_failed"
                 THEN [h2 EXCEPT !.timer = FALSE, !.complete = TRUE]
                 ELSE [h2 EXCEPT !.timer = TRUE]

\* start_finder_mode
start_finder_mode(h, device_count, timer_outcome) ==
    LET h1 == [h EXCEPT !.state = ZIGBEE_STATE_FINDER_MODE,
                        !.trans = Append(@, ZIGBEE_STATE_FINDER_MODE),
                        !.elapsed = 0,
                        !.paired = FALSE,
                        !.complete = FALSE,
                        !.ticks = 0]
    IN  IF timer_outcome = "create_failed"
        THEN [h1 EXCEPT !.complete = TRUE]
        ELSE LET h2 == [h1 EXCEPT !.calls = @ \o
                          <<esp_zb_bdb_open_network(ZIGBEE_FINDER_TIMEOUT_SEC + 10)>>]
             IN  IF timer_outcome = "start_failed"
                 THEN [h2 EXCEPT !.timer = FALSE, !.complete = TRUE]
                 ELSE finder_mode_timer_callback([h2 EXCEPT !.timer = TRUE],
                                                 device_count)

\* the finder variables take the values of record h
SetHub(h) ==
    /\ s_zigbee_state' = h.state
    /\ s_finder_timer' = h.timer
    /\ s_finder_elapsed_sec' = h.elapsed
    /\ s_finder_complete' = h.complete
    /\ s_device_paired_during_finder' = h.paired
    /\ finderTicks' = h.ticks
    /\ transitions' = h.trans

(***************************************************************************)
(* Command dispatch and the Tuya frames it sends.                         *)
(***************************************************************************)
\* is_blind_device
is_blind_device(dev) ==
    dev.device_type \in {ZIGBEE_DEVICE_TYPE_BLIND, ZIGBEE_DEVICE_TYPE_TUYA_BLIND}

\* index of the first blind from slot i on, with short address addr when
\* addr is not 0; -1 when there is none
RECURSIVE FindBlind(_, _, _, _)
FindBlind(devs, n, addr, i) ==
    IF i >= n THEN -1
    ELSE IF is_blind_device(devs[i]) /\ (addr = 0 \/ devs[i].short_addr = addr)
        THEN i
    ELSE FindBlind(devs, n, addr, i + 1)

\* variant of get_blind_device that takes the first record of the address,
\* whatever its kind
get_blind_device_any_kind(devs, n, device_addr) ==
    IF device_addr = 0 THEN FindBlind(devs, n, 0, 0)
    ELSE FindShort(devs, n, device_addr, 0)

\* get_blind_device: slot index, -1 for NULL
get_blind_device(devs, n, device_addr) == FindBlind(devs, n, device_addr, 0)

\* Tuya protocol values
TUYA_CMD_SET_DATA == 0
TUYA_DP_CONTROL == 1
TUYA_DP_PERCENT == 2
TUYA_TYPE_VALUE == 2
TUYA_TYPE_ENUM == 4
TUYA_BLIND_OPEN == 0
TUYA_BLIND_STOP == 1
TUYA_BLIND_CLOSE == 2
\* sizeof(frame) in tuya_send_command
TUYA_FRAME_SIZE == 16
\* the bytes before the data of a Tuya frame
TUYA_HEADER_LEN == 6

\* the frame tuya_send_command builds under sequence number seq
TuyaFrame(seq, dp_id, data_type, data) ==
    <<0, seq, dp_id, data_type, 0, Len(data) % 256>> \o data

\* what a dispatcher function leaves behind: its status, the sequence
\* counter, the stack calls it made and the registry
DispatchResult(ret, seq, calls, devs) ==
    [ret |-> ret, seq |-> seq, calls |-> calls, devices |-> devs]

\* variant of tuya_send_command that returns the status of the send
tuya_send_command_returns_ret(devs, device, seq, dp_id, data_type, data, transport) ==
    LET frame_len == (TUYA_HEADER_LEN + Len(data)) % 256 IN
    IF frame_len > TUYA_FRAME_SIZE
    THEN DispatchResult(ESP_ERR_INVALID_SIZE, seq, <<>>, devs)
    ELSE LET seq1 == (seq + 1) % 256 IN
         DispatchResult(transport, seq1,
             <<esp_zb_lock_acquire,
               esp_zb_zcl_custom_cluster_cmd_req(
                   device.short_addr, device.endpoint, TUYA_CMD_SET_DATA,
                   TuyaFrame(seq1, dp_id, data_type, data)),
               esp_zb_lock_release>>, devs)

\* tuya_send_command; transport is the status of the send, which it ignores.
\* data is at most MaxPayload bytes long here, so frame_len does not wrap.
tuya_send_command(devs, device, seq, dp_id, data_type, data, transport) ==
    LET frame_len == (TUYA_HEADER_LEN + Len(data)) % 256 IN
    IF frame_len > TUYA_FRAME_SIZE
    THEN DispatchResult(ESP_ERR_INVALID_SIZE, seq, <<>>, devs)
    ELSE LET seq1 == (seq + 1) % 256 IN
         DispatchResult(ESP_OK, seq1,
             <<esp_zb_lock_acquire,
               esp_zb_zcl_custom_cluster_cmd_req(
                   device.short_addr, device.endpoint, TUYA_CMD_SET_DATA,
                   TuyaFrame(seq1, dp_id, data_type, data)),
               esp_zb_lock_release>>, devs)

\* tuya_blind_control
tuya_blind_control(devs, blind, seq, control_cmd, transport) ==
    tuya_send_command(devs, blind, seq, TUYA_DP_CONTROL, TUYA_TYPE_ENUM,
                      <<control_cmd>>, transport)

\* variant of tuya_blind_position that sends the lift percentage
tuya_blind_position_inverted(devs, blind, seq, percent, transport) ==
    tuya_send_command(devs, blind, seq, TUYA_DP_PERCENT, TUYA_TYPE_VALUE,
                      <<0, 0, 0, (100 - percent) % 256>>, transport)

\* tuya_blind_position
tuya_blind_position(devs, blind, seq, percent, transport) ==
    tuya_send_command(devs, blind, seq, TUYA_DP_PERCENT, TUYA_TYPE_VALUE,
                      <<0, 0, 0, percent>>, transport)

\* the window covering branch of the dispatcher functions
window_covering_cmd(devs, blind, seq, cmd_id, value, transport) ==
    DispatchResult(transport, seq,
        <<esp_zb_lock_acquire,
          esp_zb_zcl_window_covering_cluster_send_cmd_req(
              blind.short_addr, blind.endpoint, cmd_id, value),
          esp_zb_lock_release>>, devs)

\* variant of blind_command that picks the encoding by the endpoint
blind_command_by_endpoint(devs, n, seq, device_addr, control_cmd, cmd_id, transport) ==
    LET i == get_blind_device(devs, n, device_addr) IN
    IF i < 0 THEN DispatchResult(ESP_ERR_NOT_FOUND, seq, <<>>, devs)
    ELSE IF devs[i].endpoint = 1
        THEN tuya_blind_control(devs, devs[i], seq, control_cmd, transport)
    ELSE window_covering_cmd(devs, devs[i], seq, cmd_id, <<>>, transport)

\* the body zigbee_blind_open, zigbee_blind_close and zigbee_blind_stop
\* share: control_cmd is the Tuya command, cmd_id the window covering one
blind_command(devs, n, seq, device_addr, control_cmd, cmd_id, transport) ==
    LET i == get_blind_device(devs, n, device_addr) IN
    IF i < 0 THEN DispatchResult(ESP_ERR_NOT_FOUND, seq, <<>>, devs)
    ELSE IF devs[i].device_type = ZIGBEE_DEVICE_TYPE_TUYA_BLIND
        THEN tuya_blind_control(devs, devs[i], seq, control_cmd, transport)
    ELSE window_covering_cmd(devs, devs[i], seq, cmd_id, <<>>, transport)

zigbee_blind_open(devs, n, seq, device_addr, transport) ==
    blind_command(devs, n, seq, device_addr, TUYA_BLIND_OPEN,
                  "ESP_ZB_ZCL_CMD_WINDOW_COVERING_UP_OPEN", transport)

zigbee_blind_close(devs, n, seq, device_addr, transport) ==
    blind_command(devs, n, seq, device_addr, TUYA_BLIND_CLOSE,
                  "ESP_ZB_ZCL_CMD_WINDOW_COVERING_DOWN_CLOSE", transport)

zigbee_blind_stop(devs, n, seq, device_addr, transport) ==
    blind_command(devs, n, seq, device_addr, TUYA_BLIND_STOP,
                  "ESP_ZB_ZCL_CMD_WINDOW_COVERING_STOP", transport)

\* variant of zigbee_blind_set_position that keeps the commanded position
\* in the record
zigbee_blind_set_position_cached(devs, n, seq, device_addr, percent, transport) ==
    LET i == get_blind_device(devs, n, device_addr) IN
    IF i < 0 THEN DispatchResult(ESP_ERR_NOT_FOUND, seq, <<>>, devs)
    ELSE LET clamped == IF percent > 100 THEN 100 ELSE percent
             kept == [devs EXCEPT ![i].current_position = clamped]
         IN  IF devs[i].device_type = ZIGBEE_DEVICE_TYPE_TUYA_BLIND
             THEN tuya_blind_position(kept, devs[i], seq, clamped, transport)
             ELSE window_covering_cmd(kept, devs[i], seq,
                      "ESP_ZB_ZCL_CMD_WINDOW_COVERING_GO_TO_LIFT_PERCENTAGE",
                      <<(100 - clamped) % 256>>, transport)

\* zigbee_blind_set_position; percent and lift_percent are uint8_t
zigbee_blind_set_position(devs, n, seq, device_addr, percent, transport) ==
    LET i == get_blind_device(devs, n, device_addr) IN
    IF i < 0 THEN DispatchResult(ESP_ERR_NOT_FOUND, seq, <<>>, devs)
    ELSE LET clamped == IF percent > 100 THEN 100 ELSE percent IN
         IF devs[i].device_type = ZIGBEE_DEVICE_TYPE_TUYA_BLIND
         THEN tuya_blind_position(devs, devs[i], seq, clamped, transport)
         ELSE window_covering_cmd(devs, devs[i], seq,
                  "ESP_ZB_ZCL_CMD_WINDOW_COVERING_GO_TO_LIFT_PERCENTAGE",
                  <<(100 - clamped) % 256>>, transport)

\* zigbee_blind_query_position: the query frame carries the sequence number
\* as it was before the increment; the status of the send is not read
zigbee_blind_query_position(devs, n, seq, device_addr) ==
    LET i == get_blind_device(devs, n, device_addr) IN
    IF i < 0 THEN DispatchResult(ESP_ERR_NOT_FOUND, seq, <<>>, devs)
    ELSE IF devs[i].device_type = ZIGBEE_DEVICE_TYPE_TUYA_BLIND
        THEN DispatchResult(ESP_OK, (seq + 1) % 256,
                 <<esp_zb_lock_acquire,
                   esp_zb_zcl_custom_cluster_cmd_req(
                       devs[i].short_addr, devs[i].endpoint, 0,
                       <<0, seq, 2>>),
                   esp_zb_lock_release>>, devs)
    ELSE DispatchResult(ESP_OK, seq, <<>>, devs)

\* the ping loop of the startup handler, from slot i on
RECURSIVE PingStored(_, _, _, _)
PingStored(devs, n, i, acc) ==
    IF i >= n THEN acc
    ELSE IF devs[i].device_type = ZIGBEE_DEVICE_TYPE_TUYA_BLIND
        THEN LET q == zigbee_blind_query_position(devs, n, acc.seq,
                                                  devs[i].short_addr)
             IN  PingStored(devs, n, i + 1,
                            [seq |-> q.seq, calls |-> acc.calls \o q.calls])
    ELSE PingStored(devs, n, i + 1, acc)


(***************************************************************************)
(* Device discovery.                                                       *)
(***************************************************************************)
\* the cluster loop of zb_simple_desc_cb, from index i on
RECURSIVE ClusterLoop(_, _, _, _)
ClusterLoop(clusters, i, detected_type, has_tuya_cluster) ==
    IF i > Len(clusters)
    THEN [detected_type |-> detected_type, has_tuya_cluster |-> has_tuya_cluster]
    ELSE IF clusters[i] = ESP_ZB_ZCL_CLUSTER_ID_WINDOW_COVERING
        THEN ClusterLoop(clusters, i + 1, ZIGBEE_DEVICE_TYPE_BLIND,
                         has_tuya_cluster)
    ELSE IF clusters[i] = ESP_ZB_ZCL_CLUSTER_ID_ON_OFF
            /\ detected_type = ZIGBEE_DEVICE_TYPE_UNKNOWN
        THEN ClusterLoop(clusters, i + 1, ZIGBEE_DEVICE_TYPE_LIGHT,
                         has_tuya_cluster)
    ELSE IF clusters[i] = TUYA_PRIVATE_CLUSTER_ID
        THEN ClusterLoop(clusters, i + 1, detected_type, TRUE)
    ELSE ClusterLoop(clusters, i + 1, detected_type, has_tuya_cluster)

\* the input clusters of a simple descriptor: the first
\* app_input_cluster_count entries of app_cluster_list, the output clusters
\* follow them
InputClusters(simple_desc) ==
    SubSeq(simple_desc.app_cluster_list, 1, simple_desc.app_input_cluster_count)

\* variant of DetectedType that registers a vendor device only under the
\* device ids it knows
DetectedType_by_device_id(simple_desc) ==
    LET r == ClusterLoop(InputClusters(simple_desc), 1,
                         ZIGBEE_DEVICE_TYPE_UNKNOWN, FALSE)
    IN  IF r.detected_type = ZIGBEE_DEVICE_TYPE_UNKNOWN /\ r.has_tuya_cluster
        THEN IF simple_desc.app_device_id = 514
                \/ simple_desc.app_device_id = 81
             THEN ZIGBEE_DEVICE_TYPE_TUYA_BLIND
             ELSE ZIGBEE_DEVICE_TYPE_UNKNOWN
        ELSE r.detected_type

\* the type zb_simple_desc_cb detects from a simple descriptor
DetectedType(simple_desc) ==
    LET r == ClusterLoop(InputClusters(simple_desc), 1,
                         ZIGBEE_DEVICE_TYPE_UNKNOWN, FALSE)
    IN  IF r.detected_type = ZIGBEE_DEVICE_TYPE_UNKNOWN /\ r.has_tuya_cluster
        THEN IF simple_desc.app_device_id = 514
                \/ simple_desc.app_device_id = 81
             THEN ZIGBEE_DEVICE_TYPE_TUYA_BLIND
             ELSE ZIGBEE_DEVICE_TYPE_TUYA_BLIND
        ELSE r.detected_type

\* variant of simple_desc_outcome without the device_registered guard
simple_desc_outcome_unguarded(zdo_status, device_registered, detected_type) ==
    IF zdo_status # "SUCCESS" THEN "failed"
    ELSE IF detected_type = ZIGBEE_DEVICE_TYPE_UNKNOWN THEN "skipped"
    ELSE "added"

\* variant of simple_desc_outcome that registers a device of unknown type
simple_desc_outcome_registers_unknown(zdo_status, device_registered, detected_type) ==
    IF zdo_status # "SUCCESS" THEN "failed"
    ELSE IF device_registered THEN "registered"
    ELSE "added"

\* the outcome of zb_simple_desc_cb: its early returns, or "added" when it
\* goes on to register the device
simple_desc_outcome(zdo_status, device_registered, detected_type) ==
    IF zdo_status # "SUCCESS" THEN "failed"
    ELSE IF device_registered THEN "registered"
    ELSE IF detected_type = ZIGBEE_DEVICE_TYPE_UNKNOWN THEN "skipped"
    ELSE "added"

\* variant of updated that builds the record anew instead of copying it
updated_rebuilt(dev, device_short_addr) ==
    zigbee_device_t(device_short_addr, dev.ieee_addr, 0,
                    ZIGBEE_DEVICE_TYPE_UNKNOWN, TRUE, 0)

\* the record a rejoin announcement stores: a copy of the known record with
\* the announced short address, marked online
updated(dev, device_short_addr) ==
    [dev EXCEPT !.short_addr = device_short_addr, !.is_online = TRUE]

\* variant of startup_branch that reconnects whatever the registry holds
startup_branch_reconnects(err_status, is_factory_new, device_count) ==
    IF err_status # ESP_OK THEN "failed"
    ELSE IF is_factory_new THEN "factory_new"
    ELSE "stored_devices"

\* variant of startup_branch that searches for devices on every boot of a
\* formed network
startup_branch_always_finds(err_status, is_factory_new, device_count) ==
    IF err_status # ESP_OK THEN "failed"
    ELSE IF is_factory_new THEN "factory_new"
    ELSE "no_devices"

\* the branch the startup signal takes
startup_branch(err_status, is_factory_new, device_count) ==
    IF err_status # ESP_OK THEN "failed"
    ELSE IF is_factory_new THEN "factory_new"
    ELSE IF device_count > 0 THEN "stored_devices"
    ELSE "no_devices"

\* a ZDO query in flight: its kind, the device it was addressed to (which
\* answers it) and the endpoint asked about
ActiveEpReq(ieee) == [type |-> "active_ep", ieee |-> ieee, endpoint |-> 0]
SimpleDescReq(ieee, ep) == [type |-> "simple_desc", ieee |-> ieee, endpoint |-> ep]

InSeq(x, sq) == \E k \in 1..Len(sq) : sq[k] = x

\* what the last step did: the handler, its outcome, and the status of the
\* zigbee_devices_add it called ("none" when it called none)
Observe(op, ret, add) == [op |-> op, ret |-> ret, add |-> add]

(***************************************************************************)
(* Initial state: the statics of both files as the C runtime zeroes them,  *)
(* and a flash store as an earlier run left it.                            *)
(***************************************************************************)
\* a device other than the ones of Ieee, paired in an earlier run
FillerDevice(i) ==
    zigbee_device_t(MaxShort + 1 + i, MaxIeee + 1 + i, 1,
                    ZIGBEE_DEVICE_TYPE_LIGHT, FALSE, 0)

\* device 1 as an earlier run left it in the store
StoredDevice ==
    zigbee_device_t(1, 1, EndpointsOf(1)[1], DetectedType(DescriptorOf(1)),
                    FALSE, 40)

\* the store after k devices were paired: k - 1 fillers, then device 1
FilledStore(k) ==
    [has_count |-> TRUE, count |-> k, has_dev |-> {i \in Slots : i < k},
     dev |-> [i \in Slots |-> IF i < k - 1 THEN FillerDevice(i)
                              ELSE IF i = k - 1 THEN StoredDevice
                              ELSE ZeroDevice]]

\* a first run, or a run with a registry that an earlier run filled
PriorStores == {EmptyStore, FilledStore(ZIGBEE_MAX_DEVICES)}

ZeroCtx == [short_addr |-> 0, ieee_addr |-> 0, device_registered |-> FALSE]

InitStatics ==
    /\ s_devices = [i \in Slots |-> ZeroDevice]
    /\ s_device_count = 0
    /\ s_nvs_handle = 0
    /\ s_network_ready = FALSE
    /\ s_zigbee_state = ZIGBEE_STATE_INITIALIZING
    /\ s_finder_timer = FALSE
    /\ s_finder_elapsed_sec = 0
    /\ s_finder_complete = FALSE
    /\ s_device_paired_during_finder = FALSE
    /\ s_discovery_ctx = ZeroCtx
    /\ s_tuya_seq = 0
    /\ s_blind_position_percent = 0
    /\ s_blind_position_known = FALSE
    /\ zb_task = IdleTask
    /\ cmd_task = IdleTask
    /\ tuya_prev_seq = -1
    /\ s_scan_timer = FALSE
    /\ s_scan_interval_sec = 0
    /\ scan_timers_live = 0
    /\ timer_task = IdleTask
    /\ finder_timer_deletes = 0

Init ==
    /\ InitStatics
    /\ nvs \in PriorStores
    /\ bdb = "off"
    /\ factory_new \in BOOLEAN
    /\ zdo_pending = EmptyBag
    /\ last = Observe("boot", "-", "none")
    /\ stack_calls = <<>>
    /\ transitions = <<>>
    /\ finderTicks = 0
    /\ ctxUpserts = 0
    /\ nvsFaults = 0
    /\ formationFailures = 0
    /\ commands = 0
    /\ args = <<>>

\* a storage fault can be injected while the fault budget lasts
FaultAllowed(f) ==
    f # NoFault => (s_nvs_handle # 0 /\ nvsFaults < MaxNvsFaults)

FaultCounted(f) ==
    nvsFaults' = IF f = NoFault THEN nvsFaults ELSE nvsFaults + 1

(***************************************************************************)
(* The registry API (zigbee_devices.h), called by any task.                *)
(***************************************************************************)
ApiDevices ==
    {zigbee_device_t(s, i, EndpointsOf(i)[1], DetectedType(DescriptorOf(i)), FALSE, 0) :
        s \in ShortAddrs, i \in Ieee}

Call_zigbee_devices_add(device, f) ==
    /\ UNCHANGED <<reportVars, commands, taskVars, tuya_prev_seq, timerVars>>
    /\ args' = <<>>
    /\ FaultAllowed(f)
    /\ LET r == zigbee_devices_add(s_devices, s_device_count, s_nvs_handle,
                                   nvs, device, f)
       IN  /\ (f # NoFault => r.ret = ESP_FAIL)
           /\ s_devices' = r.devices
           /\ s_device_count' = r.count
           /\ nvs' = r.nvs
           /\ last' = Observe("zigbee_devices_add", r.ret, r.ret)
    /\ FaultCounted(f)
    /\ stack_calls' = <<>>
    /\ transitions' = <<>>
    /\ UNCHANGED <<s_nvs_handle, hubVars, stackVars, finderTicks, ctxUpserts,
                   formationFailures>>

Call_zigbee_devices_remove(short_addr, f) ==
    /\ UNCHANGED <<reportVars, commands, taskVars, tuya_prev_seq, timerVars>>
    /\ args' = <<>>
    /\ FaultAllowed(f)
    /\ LET r == zigbee_devices_remove(s_devices, s_device_count, s_nvs_handle,
                                      nvs, short_addr, f)
       IN  /\ (f # NoFault => r.ret = ESP_FAIL)
           /\ s_devices' = r.devices
           /\ s_device_count' = r.count
           /\ nvs' = r.nvs
           /\ last' = Observe("zigbee_devices_remove", r.ret, "none")
    /\ FaultCounted(f)
    /\ stack_calls' = <<>>
    /\ transitions' = <<>>
    /\ UNCHANGED <<s_nvs_handle, hubVars, stackVars, finderTicks, ctxUpserts,
                   formationFailures>>

\* zigbee_devices_clear_all
Call_zigbee_devices_clear_all ==
    /\ UNCHANGED <<reportVars, commands, taskVars, tuya_prev_seq, timerVars>>
    /\ args' = <<>>
    /\ s_device_count' = 0
    /\ nvs' = IF s_nvs_handle # 0 THEN EmptyStore ELSE nvs
    /\ last' = Observe("zigbee_devices_clear_all", ESP_OK, "none")
    /\ stack_calls' = <<>>
    /\ transitions' = <<>>
    /\ UNCHANGED <<s_devices, s_nvs_handle, hubVars, stackVars, finderTicks,
                   ctxUpserts, nvsFaults, formationFailures>>

\* zigbee_hub_init: loads the registry and creates the Zigbee task, whose
\* esp_zb_start raises the SKIP_STARTUP signal
Call_zigbee_hub_init ==
    /\ UNCHANGED <<reportVars, commands, taskVars, tuya_prev_seq, timerVars>>
    /\ args' = <<>>
    /\ bdb = "off"
    /\ LET r == zigbee_devices_init(nvs, s_devices, s_device_count)
       IN  /\ s_devices' = r.devices
           /\ s_device_count' = r.count
    /\ s_nvs_handle' = 1
    /\ bdb' = "skip_startup"
    /\ last' = Observe("zigbee_hub_init", ESP_OK, "none")
    /\ stack_calls' = <<>>
    /\ transitions' = <<>>
    /\ UNCHANGED <<nvs, hubVars, factory_new, zdo_pending, finderTicks,
                   ctxUpserts, nvsFaults, formationFailures>>

\* power cycle: the statics are zeroed again, the flash store stays
Restart ==
    /\ bdb # "off"
    /\ s_devices' = [i \in Slots |-> ZeroDevice]
    /\ s_device_count' = 0
    /\ s_nvs_handle' = 0
    /\ s_network_ready' = FALSE
    /\ s_zigbee_state' = ZIGBEE_STATE_INITIALIZING
    /\ s_finder_timer' = FALSE
    /\ s_finder_elapsed_sec' = 0
    /\ s_finder_complete' = FALSE
    /\ s_device_paired_during_finder' = FALSE
    /\ s_discovery_ctx' = ZeroCtx
    /\ s_tuya_seq' = 0
    /\ s_blind_position_percent' = 0
    /\ s_blind_position_known' = FALSE
    /\ UNCHANGED taskVars
    /\ tuya_prev_seq' = -1
    /\ s_scan_timer' = FALSE
    /\ s_scan_interval_sec' = 0
    /\ scan_timers_live' = 0
    /\ timer_task' = IdleTask
    /\ finder_timer_deletes' = 0
    /\ commands' = 0
    /\ args' = <<>>
    /\ bdb' = "off"
    /\ zdo_pending' = EmptyBag
    /\ last' = Observe("restart", "-", "none")
    /\ stack_calls' = <<>>
    /\ transitions' = <<>>
    /\ finderTicks' = 0
    /\ ctxUpserts' = 0
    /\ UNCHANGED <<nvs, factory_new, nvsFaults, formationFailures>>

(***************************************************************************)
(* esp_zb_app_signal_handler, one action per signal.                       *)
(***************************************************************************)
\* ESP_ZB_ZDO_SIGNAL_SKIP_STARTUP
Signal_SKIP_STARTUP ==
    /\ UNCHANGED <<reportVars, commands, taskVars, tuya_prev_seq, timerVars>>
    /\ args' = <<>>
    /\ bdb = "skip_startup"
    /\ bdb' = "initialization"
    /\ last' = Observe("SKIP_STARTUP", "-", "none")
    /\ stack_calls' = <<start_commissioning_INITIALIZATION>>
    /\ transitions' = <<>>
    /\ UNCHANGED <<regVars, hubVars, factory_new, zdo_pending, finderTicks,
                   ctxUpserts, nvsFaults, formationFailures>>

\* variant of the startup handler whose failure branch leaves
\* finder-complete as it is
Signal_DEVICE_START_keeps_waiting(err_status, timer_outcome) ==
    /\ UNCHANGED <<reportVars, commands, taskVars, timerVars>>
    /\ args' = <<>>
    /\ bdb = "initialization"
    /\ LET branch == startup_branch(err_status, factory_new,
                                    zigbee_devices_get_count)
       IN  /\ last' = Observe("DEVICE_START", branch, "none")
           /\ CASE branch = "failed" ->
                   /\ SetHub([HubRec EXCEPT
                                !.state = ZIGBEE_STATE_FAILED,
                                !.trans = <<ZIGBEE_STATE_FAILED>>])
                   /\ stack_calls' = <<>>
                   /\ bdb' = "idle"
                   /\ UNCHANGED <<s_network_ready, s_tuya_seq>>
             [] branch = "factory_new" ->
                   /\ SetHub([HubRec EXCEPT
                                !.state = ZIGBEE_STATE_FORMING_NETWORK,
                                !.trans = <<ZIGBEE_STATE_FORMING_NETWORK>>])
                   /\ stack_calls' = <<start_commissioning_FORMATION>>
                   /\ bdb' = "formation"
                   /\ UNCHANGED <<s_network_ready, s_tuya_seq>>
             [] branch = "stored_devices" ->
                   LET ping == PingStored(s_devices, s_device_count, 0,
                                          [seq |-> s_tuya_seq, calls |-> <<>>])
                   IN  /\ SetHub([HubRec EXCEPT
                                    !.state = ZIGBEE_STATE_READY,
                                    !.trans = <<ZIGBEE_STATE_RECONNECTING,
                                                ZIGBEE_STATE_READY>>,
                                    !.complete = TRUE])
                       /\ stack_calls' =
                              <<esp_zb_bdb_open_network(60)>> \o ping.calls
                       /\ s_tuya_seq' = ping.seq
                       /\ s_network_ready' = TRUE
                       /\ bdb' = "idle"
             [] OTHER ->
                   LET h == start_finder_mode(HubRec, zigbee_devices_get_count,
                                              timer_outcome)
                   IN  /\ SetHub(h)
                       /\ stack_calls' = h.calls
                       /\ s_network_ready' = TRUE
                       /\ bdb' = "idle"
                       /\ UNCHANGED s_tuya_seq
    /\ UNCHANGED <<regVars, s_discovery_ctx, factory_new, zdo_pending,
                   ctxUpserts, nvsFaults, formationFailures>>
    /\ tuya_prev_seq' = LastFrameSeq(tuya_prev_seq, stack_calls')

\* ESP_ZB_BDB_SIGNAL_DEVICE_FIRST_START and ESP_ZB_BDB_SIGNAL_DEVICE_REBOOT
Signal_DEVICE_START(err_status, timer_outcome) ==
    /\ UNCHANGED <<reportVars, commands, taskVars, timerVars>>
    /\ args' = <<>>
    /\ bdb = "initialization"
    /\ LET branch == startup_branch(err_status, factory_new,
                                    zigbee_devices_get_count)
       IN  /\ last' = Observe("DEVICE_START", branch, "none")
           /\ CASE branch = "failed" ->
                   /\ SetHub([HubRec EXCEPT
                                !.state = ZIGBEE_STATE_FAILED,
                                !.trans = <<ZIGBEE_STATE_FAILED>>,
                                !.complete = TRUE])
                   /\ stack_calls' = <<>>
                   /\ bdb' = "idle"
                   /\ UNCHANGED <<s_network_ready, s_tuya_seq>>
             [] branch = "factory_new" ->
                   /\ SetHub([HubRec EXCEPT
                                !.state = ZIGBEE_STATE_FORMING_NETWORK,
                                !.trans = <<ZIGBEE_STATE_FORMING_NETWORK>>])
                   /\ stack_calls' = <<start_commissioning_FORMATION>>
                   /\ bdb' = "formation"
                   /\ UNCHANGED <<s_network_ready, s_tuya_seq>>
             [] branch = "stored_devices" ->
                   LET ping == PingStored(s_devices, s_device_count, 0,
                                          [seq |-> s_tuya_seq, calls |-> <<>>])
                   IN  /\ SetHub([HubRec EXCEPT
                                    !.state = ZIGBEE_STATE_READY,
                                    !.trans = <<ZIGBEE_STATE_RECONNECTING,
                                                ZIGBEE_STATE_READY>>,
                                    !.complete = TRUE])
                       /\ stack_calls' =
                              <<esp_zb_bdb_open_network(60)>> \o ping.calls
                       /\ s_tuya_seq' = ping.seq
                       /\ s_network_ready' = TRUE
                       /\ bdb' = "idle"
             [] OTHER ->
                   LET h == start_finder_mode(HubRec, zigbee_devices_get_count,
                                              timer_outcome)
                   IN  /\ SetHub(h)
                       /\ stack_calls' = h.calls
                       /\ s_network_ready' = TRUE
                       /\ bdb' = "idle"
                       /\ UNCHANGED s_tuya_seq
    /\ UNCHANGED <<regVars, s_discovery_ctx, factory_new, zdo_pending,
                   ctxUpserts, nvsFaults, formationFailures>>
    /\ tuya_prev_seq' = LastFrameSeq(tuya_prev_seq, stack_calls')

\* variant of the formation handler that gives up after a failed attempt
Signal_FORMATION_gives_up(err_status) ==
    /\ UNCHANGED <<reportVars, commands, taskVars, tuya_prev_seq, timerVars>>
    /\ args' = <<>>
    /\ bdb = "formation"
    /\ last' = Observe("FORMATION", err_status, "none")
    /\ transitions' = <<>>
    /\ IF err_status = ESP_OK THEN
           /\ s_network_ready' = TRUE
           /\ stack_calls' = <<start_commissioning_STEERING>>
           /\ bdb' = "steering"
           /\ factory_new' = FALSE
           /\ formationFailures' = 0
       ELSE
           /\ formationFailures < MaxFormationFailures
           /\ formationFailures' = formationFailures + 1
           /\ stack_calls' = <<>>
           /\ bdb' = "idle"
           /\ UNCHANGED <<s_network_ready, factory_new>>
    /\ UNCHANGED <<regVars, s_zigbee_state, s_finder_timer,
                   s_finder_elapsed_sec, s_finder_complete,
                   s_device_paired_during_finder, s_discovery_ctx, s_tuya_seq,
                   zdo_pending, finderTicks, ctxUpserts, nvsFaults>>

\* ESP_ZB_BDB_SIGNAL_FORMATION
Signal_FORMATION(err_status) ==
    /\ UNCHANGED <<reportVars, commands, taskVars, tuya_prev_seq, timerVars>>
    /\ args' = <<>>
    /\ bdb = "formation"
    /\ last' = Observe("FORMATION", err_status, "none")
    /\ transitions' = <<>>
    /\ IF err_status = ESP_OK THEN
           /\ s_network_ready' = TRUE
           /\ stack_calls' = <<start_commissioning_STEERING>>
           /\ bdb' = "steering"
           /\ factory_new' = FALSE
           /\ formationFailures' = 0
       ELSE
           /\ formationFailures < MaxFormationFailures
           /\ formationFailures' = formationFailures + 1
           /\ stack_calls' = <<StackCall("esp_zb_scheduler_alarm", 1000)>>
           /\ bdb' = "formation_alarm"
           /\ UNCHANGED <<s_network_ready, factory_new>>
    /\ UNCHANGED <<regVars, s_zigbee_state, s_finder_timer,
                   s_finder_elapsed_sec, s_finder_complete,
                   s_device_paired_during_finder, s_discovery_ctx, s_tuya_seq,
                   zdo_pending, finderTicks, ctxUpserts, nvsFaults>>

\* the alarm set by a failed formation fires
bdb_start_top_level_commissioning_cb ==
    /\ UNCHANGED <<reportVars, commands, taskVars, tuya_prev_seq, timerVars>>
    /\ args' = <<>>
    /\ bdb = "formation_alarm"
    /\ bdb' = "formation"
    /\ last' = Observe("bdb_start_top_level_commissioning_cb", "-", "none")
    /\ stack_calls' = <<start_commissioning_FORMATION>>
    /\ transitions' = <<>>
    /\ UNCHANGED <<regVars, hubVars, factory_new, zdo_pending, finderTicks,
                   ctxUpserts, nvsFaults, formationFailures>>

\* variant of the steering signal that the stack delivers again and again
Signal_STEERING_repeats(err_status, timer_outcome) ==
    /\ UNCHANGED <<reportVars, commands, taskVars, tuya_prev_seq, timerVars>>
    /\ args' = <<>>
    /\ bdb = "steering"
    /\ bdb' = "steering"
    /\ IF err_status # ESP_OK THEN
           /\ SetHub(HubRec)
           /\ last' = Observe("STEERING", "failed", "none")
           /\ stack_calls' = <<>>
       ELSE IF zigbee_devices_get_count = 0 THEN
           LET h == start_finder_mode(HubRec, zigbee_devices_get_count,
                                      timer_outcome)
           IN  /\ SetHub(h)
               /\ last' = Observe("STEERING", "no_devices", "none")
               /\ stack_calls' = h.calls
       ELSE
           /\ SetHub([HubRec EXCEPT !.complete = TRUE,
                                    !.state = ZIGBEE_STATE_READY,
                                    !.trans = <<ZIGBEE_STATE_READY>>])
           /\ last' = Observe("STEERING", "stored_devices", "none")
           /\ stack_calls' = <<>>
    /\ UNCHANGED <<regVars, s_network_ready, s_discovery_ctx, s_tuya_seq,
                   factory_new, zdo_pending, ctxUpserts, nvsFaults,
                   formationFailures>>

\* ESP_ZB_BDB_SIGNAL_STEERING
Signal_STEERING(err_status, timer_outcome) ==
    /\ UNCHANGED <<reportVars, commands, taskVars, tuya_prev_seq, timerVars>>
    /\ args' = <<>>
    /\ bdb = "steering"
    /\ bdb' = "idle"
    /\ IF err_status # ESP_OK THEN
           /\ SetHub(HubRec)
           /\ last' = Observe("STEERING", "failed", "none")
           /\ stack_calls' = <<>>
       ELSE IF zigbee_devices_get_count = 0 THEN
           LET h == start_finder_mode(HubRec, zigbee_devices_get_count,
                                      timer_outcome)
           IN  /\ SetHub(h)
               /\ last' = Observe("STEERING", "no_devices", "none")
               /\ stack_calls' = h.calls
       ELSE
           /\ SetHub([HubRec EXCEPT !.complete = TRUE,
                                    !.state = ZIGBEE_STATE_READY,
                                    !.trans = <<ZIGBEE_STATE_READY>>])
           /\ last' = Observe("STEERING", "stored_devices", "none")
           /\ stack_calls' = <<>>
    /\ UNCHANGED <<regVars, s_network_ready, s_discovery_ctx, s_tuya_seq,
                   factory_new, zdo_pending, ctxUpserts, nvsFaults,
                   formationFailures>>

\* the periodic finder timer fires (esp_timer task)
FinderTimer ==
    /\ UNCHANGED <<reportVars, commands, taskVars, tuya_prev_seq, timerVars>>
    /\ args' = <<>>
    /\ s_finder_timer
    /\ LET h == finder_mode_timer_callback(HubRec, zigbee_devices_get_count)
       IN  /\ SetHub(h)
           /\ stack_calls' = h.calls
    /\ last' = Observe("finder_mode_timer_callback", "-", "none")
    /\ UNCHANGED <<regVars, s_network_ready, s_discovery_ctx, s_tuya_seq,
                   stackVars, ctxUpserts, nvsFaults, formationFailures>>

\* ESP_ZB_ZDO_SIGNAL_DEVICE_ANNCE
Signal_DEVICE_ANNCE(ieee_addr, device_short_addr, f) ==
    /\ UNCHANGED <<reportVars, commands, taskVars, tuya_prev_seq, timerVars>>
    /\ args' = [ieee_addr |-> ieee_addr,
                device_short_addr |-> device_short_addr]
    /\ s_network_ready
    /\ FaultAllowed(f)
    /\ FaultCounted(f)
    /\ transitions' = <<>>
    /\ LET i == FindIeee(s_devices, zigbee_devices_get_count, ieee_addr, 0) IN
       IF i >= 0 THEN
           IF s_devices[i].short_addr # device_short_addr THEN
               LET r == zigbee_devices_add(s_devices, s_device_count,
                                           s_nvs_handle, nvs,
                                           updated(s_devices[i],
                                                   device_short_addr), f)
               IN  /\ (f # NoFault => r.ret = ESP_FAIL)
                   /\ s_devices' = r.devices
                   /\ s_device_count' = r.count
                   /\ nvs' = r.nvs
                   /\ last' = Observe("DEVICE_ANNCE", "rejoin", r.ret)
                   /\ stack_calls' = <<>>
                   /\ UNCHANGED <<s_discovery_ctx, zdo_pending, ctxUpserts>>
           ELSE
               /\ f = NoFault
               /\ last' = Observe("DEVICE_ANNCE", "rejoin", "none")
               /\ stack_calls' = <<>>
               /\ UNCHANGED <<s_devices, s_device_count, nvs, s_discovery_ctx,
                              zdo_pending, ctxUpserts>>
       ELSE
           /\ f = NoFault
           /\ BagCardinality(zdo_pending) < MaxPending
           /\ s_discovery_ctx' = [short_addr |-> device_short_addr,
                                  ieee_addr |-> ieee_addr,
                                  device_registered |-> FALSE]
           /\ zdo_pending' = zdo_pending (+) SetToBag({ActiveEpReq(ieee_addr)})
           /\ ctxUpserts' = 0
           /\ last' = Observe("DEVICE_ANNCE", "new", "none")
           /\ stack_calls' = <<esp_zb_zdo_active_ep_req(device_short_addr)>>
           /\ UNCHANGED <<s_devices, s_device_count, nvs>>
    /\ UNCHANGED <<s_nvs_handle, s_network_ready, s_zigbee_state, s_finder_timer,
                   s_finder_elapsed_sec, s_finder_complete,
                   s_device_paired_during_finder, s_tuya_seq, bdb, factory_new,
                   finderTicks, formationFailures>>

(***************************************************************************)
(* Discovery callbacks. A query is answered by the device it was addressed *)
(* to; zdo_status says whether an answer arrived at all.                   *)
(***************************************************************************)
ZdpStatuses == {"SUCCESS", "TIMEOUT"}

\* zb_active_ep_cb(zdo_status, ep_count, ep_id_list, user_ctx)
zb_active_ep_cb(req, zdo_status) ==
    /\ UNCHANGED <<reportVars, commands, taskVars, tuya_prev_seq, timerVars>>
    /\ args' = <<>>
    /\ BagIn(req, zdo_pending)
    /\ req.type = "active_ep"
    /\ LET ep_id_list == IF zdo_status = "SUCCESS"
                         THEN EndpointsOf(req.ieee) ELSE <<>>
           ep_count == Len(ep_id_list)
           rest == zdo_pending (-) SetToBag({req})
       IN  IF zdo_status # "SUCCESS" \/ ep_count = 0 THEN
               /\ zdo_pending' = rest
               /\ stack_calls' = <<>>
               /\ last' = Observe("zb_active_ep_cb", "dropped", "none")
           ELSE
               \* the query goes to the address in the discovery context,
               \* which the device of the context holds
               /\ zdo_pending' = rest (+) SetToBag(
                      {SimpleDescReq(s_discovery_ctx.ieee_addr, ep_id_list[1])})
               /\ stack_calls' =
                      <<esp_zb_zdo_simple_desc_req(s_discovery_ctx.short_addr)>>
               /\ last' = Observe("zb_active_ep_cb", "queried", "none")
    /\ transitions' = <<>>
    /\ UNCHANGED <<regVars, hubVars, bdb, factory_new, finderTicks, ctxUpserts,
                   nvsFaults, formationFailures>>

\* zb_simple_desc_cb(zdo_status, simple_desc, user_ctx)
zb_simple_desc_cb(req, zdo_status, simple_desc, f) ==
    /\ UNCHANGED <<reportVars, commands, taskVars, tuya_prev_seq, timerVars>>
    /\ args' = IF zdo_status = "SUCCESS" THEN simple_desc ELSE <<>>
    /\ BagIn(req, zdo_pending)
    /\ req.type = "simple_desc"
    /\ (zdo_status = "SUCCESS" => InSeq(req.endpoint, EndpointsOf(req.ieee)))
    /\ FaultAllowed(f)
    /\ FaultCounted(f)
    /\ zdo_pending' = zdo_pending (-) SetToBag({req})
    /\ LET endpoint == req.endpoint
           detected_type == IF zdo_status = "SUCCESS"
                            THEN DetectedType(simple_desc)
                            ELSE ZIGBEE_DEVICE_TYPE_UNKNOWN
           outcome == simple_desc_outcome(zdo_status,
                                          s_discovery_ctx.device_registered,
                                          detected_type)
       IN  IF outcome # "added" THEN
               /\ f = NoFault
               /\ last' = Observe("zb_simple_desc_cb", outcome, "none")
               /\ SetHub(HubRec)
               /\ UNCHANGED <<s_devices, s_device_count, nvs, s_discovery_ctx,
                              ctxUpserts>>
           ELSE
               LET device == zigbee_device_t(s_discovery_ctx.short_addr,
                                             s_discovery_ctx.ieee_addr,
                                             endpoint, detected_type, TRUE, 0)
                   r == zigbee_devices_add(s_devices, s_device_count,
                                           s_nvs_handle, nvs, device, f)
                   h == IF s_zigbee_state = ZIGBEE_STATE_FINDER_MODE
                        THEN stop_finder_mode(HubRec, TRUE)
                        ELSE HubRec
               IN  /\ (f # NoFault => r.ret = ESP_FAIL)
                   /\ s_devices' = r.devices
                   /\ s_device_count' = r.count
                   /\ nvs' = r.nvs
                   /\ s_discovery_ctx' =
                          [s_discovery_ctx EXCEPT !.device_registered = TRUE]
                   /\ ctxUpserts' = ctxUpserts + 1
                   /\ SetHub(h)
                   /\ last' = Observe("zb_simple_desc_cb", outcome, r.ret)
    /\ stack_calls' = <<>>
    /\ UNCHANGED <<s_nvs_handle, s_network_ready, s_tuya_seq, bdb, factory_new,
                   formationFailures>>

(***************************************************************************)
(* Specifications.                                                         *)
(***************************************************************************)
Statuses == {ESP_OK, ESP_FAIL}

Requests == {ActiveEpReq(i) : i \in Ieee}
                \cup {SimpleDescReq(i, e) : i \in Ieee, e \in 1..2}

Faults == SaveFaults(ZIGBEE_MAX_DEVICES)

\* bring-up of the coordinator
BringUp ==
    \/ Call_zigbee_hub_init
    \/ Signal_SKIP_STARTUP
    \/ \E e \in Statuses, t \in TimerOutcomes : Signal_DEVICE_START(e, t)
    \/ \E e \in Statuses : Signal_FORMATION(e)
    \/ bdb_start_top_level_commissioning_cb
    \/ \E e \in Statuses, t \in TimerOutcomes : Signal_STEERING(e, t)

\* devices joining: announcements and the answers to the ZDO queries
Discovery ==
    \/ \E i \in Ieee, a \in ShortAddrs : Signal_DEVICE_ANNCE(i, a, NoFault)
    \/ \E r \in Requests, z \in ZdpStatuses : zb_active_ep_cb(r, z)
    \/ \E r \in Requests, z \in ZdpStatuses :
          zb_simple_desc_cb(r, z, DescriptorOf(r.ieee), NoFault)

\* the coordinator and the devices of the network; storage writes succeed
Next ==
    \/ BringUp
    \/ Discovery
    \/ FinderTimer

Spec == Init /\ [][Next]_vars

\* bring-up while another task adds records through the registry API
BringUpNext ==
    \/ BringUp
    \/ FinderTimer
    \/ \E d \in ApiDevices : Call_zigbee_devices_add(d, NoFault)

\* the stack delivers the signal of every commissioning step it was asked
\* for, the scheduler alarm fires, and a started esp_timer keeps firing
BringUpSpec ==
    /\ Init
    /\ [][BringUpNext]_vars
    /\ WF_vars(BringUp)
    /\ WF_vars(FinderTimer)

\* the registry and its store: the API, restarts, failing storage writes
RegistryNext ==
    \/ Call_zigbee_hub_init
    \/ \E d \in ApiDevices, f \in Faults : Call_zigbee_devices_add(d, f)
    \/ \E a \in ShortAddrs, f \in Faults : Call_zigbee_devices_remove(a, f)
    \/ Call_zigbee_devices_clear_all
    \/ Restart

RegistrySpec == Init /\ [][RegistryNext]_vars

(***************************************************************************)
(* Properties of the registry (RegistrySpec).                              *)
(***************************************************************************)
\* the slots below n that hold ieee
Held(devs, n, ieee) == {i \in Slots : i < n /\ devs[i].ieee_addr = ieee}

\* the registry a load would build from the store now
Reloaded == zigbee_devices_init(nvs, [i \in Slots |-> ZeroDevice], 0)

\* C1: in every reachable state no two registry slots below the device count
\* hold the same ieee_address.
C1_NoDuplicateIeee ==
    \A i, j \in Slots :
        (i < j /\ j < s_device_count)
            => s_devices[i].ieee_addr # s_devices[j].ieee_addr

\* C2: after a successful upsert of a record, the lookup for that device
\* returns a record equal to it in every field, and the registry holds
\* exactly one entry with its ieee_address.
C2_LookupReturnsLastUpsert ==
    [][\A d \in ApiDevices :
         (Call_zigbee_devices_add(d, NoFault) /\ last'.ret = ESP_OK)
            => /\ zigbee_devices_get_by_addr(s_devices', s_device_count',
                                             d.short_addr) = d
               /\ Cardinality(Held(s_devices', s_device_count',
                                   d.ieee_addr)) = 1]_vars

\* C3: with ZIGBEE_MAX_DEVICES records in the registry, an upsert of a record
\* whose ieee_address is not held returns ESP_ERR_NO_MEM and leaves the count,
\* every record and the store as they were.
C3_FullRegistryRejects ==
    [][\A d \in ApiDevices, f \in Faults :
         (/\ s_device_count = ZIGBEE_MAX_DEVICES
          /\ Held(s_devices, s_device_count, d.ieee_addr) = {}
          /\ Call_zigbee_devices_add(d, f))
            => /\ last'.ret = ESP_ERR_NO_MEM
               /\ s_device_count' = ZIGBEE_MAX_DEVICES
               /\ s_devices' = s_devices
               /\ nvs' = nvs]_vars

\* C3 witness: an upsert was refused by a full registry
C3_Witness ==
    /\ last = Observe("zigbee_devices_add", ESP_ERR_NO_MEM, ESP_ERR_NO_MEM)
    /\ s_device_count = ZIGBEE_MAX_DEVICES

\* C4: when an upsert or a remove has returned success, the store holds the
\* count and the records of the registry, and a load from it builds the same
\* records in the same order.
C4_SuccessIsDurable ==
    (last.op \in {"zigbee_devices_add", "zigbee_devices_remove"}
        /\ last.ret = ESP_OK)
        => /\ nvs.has_count
           /\ nvs.count = s_device_count
           /\ \A i \in Slots :
                 i < s_device_count
                    => (i \in nvs.has_dev /\ nvs.dev[i] = s_devices[i])
           /\ Reloaded.count = s_device_count
           /\ \A i \in Slots :
                 i < s_device_count => Reloaded.devices[i] = s_devices[i]

\* C4 witness: a remove succeeded after a storage write had failed, and
\* records are left
C4_Witness ==
    /\ last.op = "zigbee_devices_remove"
    /\ last.ret = ESP_OK
    /\ s_device_count > 0
    /\ nvsFaults > 0

(***************************************************************************)
(* Properties of device discovery (Spec).                                  *)
(***************************************************************************)
\* the discovery queries among the stack calls of the last step
QueriesIssued ==
    {k \in 1..Len(stack_calls) :
        stack_calls[k].fn \in {"esp_zb_zdo_active_ep_req",
                               "esp_zb_zdo_simple_desc_req"}}

\* C5: an announcement whose ieee_address is held by a registry record
\* changes at most the short_addr and is_online of that record; its other
\* fields, the other records, the count, the discovery context and the
\* bring-up state stay, and no discovery query is issued.
C5_RejoinFrame ==
    [][\A ieee \in Ieee, short \in ShortAddrs :
         LET k == FindIeee(s_devices, s_device_count, ieee, 0) IN
         (k >= 0 /\ Signal_DEVICE_ANNCE(ieee, short, NoFault))
            => /\ s_device_count' = s_device_count
               /\ \A j \in Slots : j # k => s_devices'[j] = s_devices[j]
               /\ s_devices'[k].ieee_addr = s_devices[k].ieee_addr
               /\ s_devices'[k].endpoint = s_devices[k].endpoint
               /\ s_devices'[k].device_type = s_devices[k].device_type
               /\ s_devices'[k].current_position = s_devices[k].current_position
               /\ s_discovery_ctx' = s_discovery_ctx
               /\ s_zigbee_state' = s_zigbee_state
               /\ transitions' = <<>>
               /\ zdo_pending' = zdo_pending
               /\ {k2 \in 1..Len(stack_calls') :
                     stack_calls'[k2].fn \in {"esp_zb_zdo_active_ep_req",
                                              "esp_zb_zdo_simple_desc_req"}} = {}]_vars

\* C5 witness: a stored device rejoined under a new short address and was
\* saved, next to other records
C5_Witness ==
    /\ last = Observe("DEVICE_ANNCE", "rejoin", ESP_OK)
    /\ s_device_count > 1
    /\ QueriesIssued = {}
    /\ \E i \in Slots :
          /\ i < s_device_count
          /\ s_devices[i].ieee_addr \in Ieee
          /\ s_devices[i].is_online
          /\ s_devices[i].current_position > 0

\* C6: for one populated discovery context at most one upsert is made: the
\* delivery of zb_simple_desc_cb that registers the device sets
\* device_registered, and a delivery that finds it set leaves the registry,
\* the store, the context and the bring-up state alone.
C6_OneUpsertPerContext ==
    [][\A r \in Requests, z \in ZdpStatuses :
         zb_simple_desc_cb(r, z, DescriptorOf(r.ieee), NoFault)
            => /\ ctxUpserts' <= 1
               /\ (ctxUpserts' > ctxUpserts
                      => s_discovery_ctx'.device_registered)
               /\ (s_discovery_ctx.device_registered
                      => /\ UNCHANGED <<regVars, s_discovery_ctx, ctxUpserts>>
                         /\ UNCHANGED <<s_zigbee_state, s_finder_timer,
                                        s_finder_complete,
                                        s_device_paired_during_finder>>
                         /\ transitions' = <<>>)]_vars

\* C6 witness: a second recognised descriptor arrived for a context whose
\* device was registered by the first
C6_Witness ==
    /\ last = Observe("zb_simple_desc_cb", "registered", "none")
    /\ ctxUpserts = 1
    /\ s_discovery_ctx.device_registered
    /\ Held(s_devices, s_device_count, s_discovery_ctx.ieee_addr) # {}

(***************************************************************************)
(* Properties of the bring-up (BringUpSpec).                               *)
(***************************************************************************)
\* finder ticks until the timeout
FinderTicksToTimeout ==
    (ZIGBEE_FINDER_TIMEOUT_SEC + ZIGBEE_FINDER_SCAN_INTERVAL - 1)
        \div ZIGBEE_FINDER_SCAN_INTERVAL

\* C7: when finder_mode_timer_callback has run 12 times since finder mode
\* started and the registry is empty, the state is READY, finder-complete is
\* set and the finder timer is stopped; with fewer runs and an empty registry
\* a started finder mode is still on.
C7_FinderTimesOut ==
    /\ finderTicks <= 12
    /\ (finderTicks = 12 /\ s_device_count = 0)
          => /\ s_zigbee_state = ZIGBEE_STATE_READY
             /\ s_finder_complete
             /\ ~s_finder_timer
             /\ ~s_device_paired_during_finder
    /\ (finderTicks \in 1..11 /\ s_device_count = 0)
          => /\ s_zigbee_state = ZIGBEE_STATE_FINDER_MODE
             /\ ~s_finder_complete
             /\ s_finder_timer

\* C7 witness: the twelfth tick has run on an empty registry
C7_Witness ==
    /\ finderTicks = 12
    /\ FinderTicksToTimeout = 12
    /\ s_device_count = 0
    /\ last.op = "finder_mode_timer_callback"
    /\ s_zigbee_state = ZIGBEE_STATE_READY

\* C8: a finder tick that finds a record in the registry while the state is
\* FINDER_MODE ends finder mode on the spot: the timeout has not been
\* reached, the state becomes READY with finder-complete set and the timer
\* stopped, and the tick makes no stack call (no neighbour scan, no
\* esp_zb_bdb_open_network).
C8_TickSeesDevice ==
    [][(/\ s_zigbee_state = ZIGBEE_STATE_FINDER_MODE
        /\ s_device_count > 0
        /\ FinderTimer)
          => /\ s_finder_elapsed_sec < ZIGBEE_FINDER_TIMEOUT_SEC
             /\ s_zigbee_state' = ZIGBEE_STATE_READY
             /\ transitions' = <<ZIGBEE_STATE_READY>>
             /\ s_finder_complete'
             /\ ~s_finder_timer'
             /\ s_device_paired_during_finder'
             /\ stack_calls' = <<>>]_vars

\* C8 witness: a tick before the timeout ended finder mode because of a record
C8_Witness ==
    /\ last.op = "finder_mode_timer_callback"
    /\ s_zigbee_state = ZIGBEE_STATE_READY
    /\ s_device_paired_during_finder
    /\ s_device_count > 0
    /\ finderTicks \in 2..11
    /\ stack_calls = <<>>

\* C9: once the bring-up has been started, finder-complete eventually
\* becomes true.
C9_FinderCompleteEventually ==
    (bdb = "skip_startup") ~> s_finder_complete

\* C10 as stated: a successful startup signal takes the state to
\* FORMING_NETWORK and starts formation on a factory-new node, and to
\* RECONNECTING otherwise, whatever the registry holds.
C10_StartupToReconnecting ==
    [][\A t \in TimerOutcomes :
         Signal_DEVICE_START(ESP_OK, t)
            => IF factory_new
               THEN /\ transitions' = <<ZIGBEE_STATE_FORMING_NETWORK>>
                    /\ stack_calls' = <<start_commissioning_FORMATION>>
               ELSE /\ transitions' # <<>>
                    /\ transitions'[1] = ZIGBEE_STATE_RECONNECTING]_vars

\* C10 amended: a successful startup signal takes the state to
\* FORMING_NETWORK and starts formation on a factory-new node; otherwise to
\* RECONNECTING and on to READY when the registry holds a record, and to
\* FINDER_MODE, never RECONNECTING, when the registry is empty.
C10_StartupByRegistry ==
    [][\A t \in TimerOutcomes :
         Signal_DEVICE_START(ESP_OK, t)
            => IF factory_new
               THEN /\ transitions' = <<ZIGBEE_STATE_FORMING_NETWORK>>
                    /\ stack_calls' = <<start_commissioning_FORMATION>>
               ELSE IF s_device_count > 0
               THEN /\ transitions' = <<ZIGBEE_STATE_RECONNECTING,
                                        ZIGBEE_STATE_READY>>
                    /\ s_finder_complete'
               ELSE /\ transitions' # <<>>
                    /\ transitions'[1] = ZIGBEE_STATE_FINDER_MODE
                    /\ \A k \in 1..Len(transitions') :
                          transitions'[k] # ZIGBEE_STATE_RECONNECTING]_vars

\* C10 witness: a node with a network and an empty registry has started
C10_Witness ==
    /\ last = Observe("DEVICE_START", "no_devices", "none")
    /\ ~factory_new
    /\ s_device_count = 0
    /\ s_zigbee_state = ZIGBEE_STATE_FINDER_MODE

MaxClusters == 2

\* basic, on/off, window covering and the vendor cluster
ClusterIds == {0, ESP_ZB_ZCL_CLUSTER_ID_ON_OFF,
               ESP_ZB_ZCL_CLUSTER_ID_WINDOW_COVERING, TUYA_PRIVATE_CLUSTER_ID}

\* smart plug (0x0051), window covering (0x0202), on/off light (0x0100)
DeviceIds == {81, 514, 256}

ClusterLists == UNION {[1..n -> ClusterIds] : n \in 0..MaxClusters}

\* simple descriptors: the cluster list holds the input clusters first, the
\* output clusters after them
Descriptors ==
    UNION {{[app_device_id |-> d, app_input_cluster_count |-> c,
             app_cluster_list |-> l] : d \in DeviceIds, c \in 0..Len(l)} :
           l \in ClusterLists}

\* a node that paired one device in an earlier run
ClassifyInit ==
    /\ InitStatics
    /\ nvs = FilledStore(1)
    /\ bdb = "off"
    /\ factory_new \in BOOLEAN
    /\ zdo_pending = EmptyBag
    /\ last = Observe("boot", "-", "none")
    /\ stack_calls = <<>>
    /\ transitions = <<>>
    /\ finderTicks = 0
    /\ ctxUpserts = 0
    /\ nvsFaults = 0
    /\ formationFailures = 0
    /\ commands = 0
    /\ args = <<>>

ClassifyNext ==
    \/ BringUp
    \/ \E i \in Ieee, a \in ShortAddrs : Signal_DEVICE_ANNCE(i, a, NoFault)
    \/ \E r \in Requests, z \in ZdpStatuses : zb_active_ep_cb(r, z)
    \/ \E r \in Requests, z \in ZdpStatuses, d \in Descriptors :
          zb_simple_desc_cb(r, z, d, NoFault)

ClassifySpec == ClassifyInit /\ [][ClassifyNext]_vars

\* the cluster ids that occur among the input clusters
InputClusterSet(simple_desc) ==
    {simple_desc.app_cluster_list[k] :
        k \in 1..simple_desc.app_input_cluster_count}

\* the kind by the set of input cluster ids
KindOfClusterSet(S) ==
    IF ESP_ZB_ZCL_CLUSTER_ID_WINDOW_COVERING \in S THEN ZIGBEE_DEVICE_TYPE_BLIND
    ELSE IF ESP_ZB_ZCL_CLUSTER_ID_ON_OFF \in S THEN ZIGBEE_DEVICE_TYPE_LIGHT
    ELSE IF TUYA_PRIVATE_CLUSTER_ID \in S THEN ZIGBEE_DEVICE_TYPE_TUYA_BLIND
    ELSE ZIGBEE_DEVICE_TYPE_UNKNOWN

\* C12: the kind zb_simple_desc_cb assigns is decided by the set of input
\* cluster ids alone, whatever their order, the output clusters and the
\* device id: BLIND if window covering occurs, else LIGHT if on/off occurs,
\* else TUYA_BLIND if the vendor cluster occurs; with none of them nothing is
\* registered, and no record of the registry has type UNKNOWN.
C12_KindByClusterSet ==
    /\ \A i \in Slots :
          i < s_device_count
             => s_devices[i].device_type # ZIGBEE_DEVICE_TYPE_UNKNOWN
    /\ (last.op = "zb_simple_desc_cb" /\ last.ret \in {"added", "skipped"})
          => LET kind == KindOfClusterSet(InputClusterSet(args))
                 i == FindIeee(s_devices, s_device_count,
                               s_discovery_ctx.ieee_addr, 0)
             IN  /\ (last.ret = "skipped") = (kind = ZIGBEE_DEVICE_TYPE_UNKNOWN)
                 /\ (last.ret = "added" /\ last.add = ESP_OK)
                       => /\ i >= 0
                          /\ s_devices[i].device_type = kind

\* C12 witness: a device whose descriptor lists on/off before window
\* covering, under a device id of a light, was registered as a blind
C12_Witness ==
    /\ last = Observe("zb_simple_desc_cb", "added", ESP_OK)
    /\ args.app_device_id = 256
    /\ args.app_input_cluster_count = 2
    /\ SubSeq(args.app_cluster_list, 1, 2)
          = <<ESP_ZB_ZCL_CLUSTER_ID_ON_OFF, ESP_ZB_ZCL_CLUSTER_ID_WINDOW_COVERING>>
    /\ \E i \in Slots :
          /\ i < s_device_count
          /\ s_devices[i].ieee_addr = s_discovery_ctx.ieee_addr
          /\ s_devices[i].device_type = ZIGBEE_DEVICE_TYPE_BLIND

(***************************************************************************)
(* The command dispatcher, called by any task (DispatchSpec): records of   *)
(* every kind are paired through the registry API and commands are sent to *)
(* them.                                                                   *)
(***************************************************************************)
MaxCommands == 1
MaxPercent == 101

DispatchAddrs == 0..(MaxShort + 1)
Percents == 0..MaxPercent

\* the kinds device i is paired as: a light or a vendor blind for the odd
\* devices, a standard or a vendor blind for the even ones
DispatchKinds(i) ==
    IF i % 2 = 1
    THEN {ZIGBEE_DEVICE_TYPE_LIGHT, ZIGBEE_DEVICE_TYPE_TUYA_BLIND}
    ELSE {ZIGBEE_DEVICE_TYPE_BLIND, ZIGBEE_DEVICE_TYPE_TUYA_BLIND}

\* records an application can pair; device i answers on endpoint i
DispatchDevices ==
    UNION {{zigbee_device_t(a, i, i, t, FALSE, 0) :
               a \in ShortAddrs, t \in DispatchKinds(i)} : i \in Ieee}

\* a first run
DispatchInit ==
    /\ InitStatics
    /\ nvs = EmptyStore
    /\ bdb = "off"
    /\ factory_new = TRUE
    /\ zdo_pending = EmptyBag
    /\ last = Observe("boot", "-", "none")
    /\ stack_calls = <<>>
    /\ transitions = <<>>
    /\ finderTicks = 0
    /\ ctxUpserts = 0
    /\ nvsFaults = 0
    /\ formationFailures = 0
    /\ commands = 0
    /\ args = <<>>

\* the arguments of a dispatcher call and the status the send reports
DispatchArgs(device_addr, percent, transport) ==
    [device_addr |-> device_addr, percent |-> percent, transport |-> transport]

\* a dispatcher function returned r
Dispatched(op, r, a) ==
    /\ commands' = commands + 1
    /\ s_devices' = r.devices
    /\ s_tuya_seq' = r.seq
    /\ stack_calls' = r.calls
    /\ last' = Observe(op, r.ret, "none")
    /\ args' = a
    /\ transitions' = <<>>
    /\ UNCHANGED <<s_device_count, s_nvs_handle, nvs, s_network_ready,
                   s_zigbee_state, s_finder_timer, s_finder_elapsed_sec,
                   s_finder_complete, s_device_paired_during_finder,
                   s_discovery_ctx, stackVars, finderTicks, ctxUpserts,
                   nvsFaults, formationFailures, reportVars, taskVars, timerVars>>
    /\ tuya_prev_seq' = LastFrameSeq(tuya_prev_seq, stack_calls')

Call_zigbee_blind_open(device_addr, transport) ==
    /\ commands < MaxCommands
    /\ Dispatched("zigbee_blind_open",
                  zigbee_blind_open(s_devices, zigbee_devices_get_count,
                                    s_tuya_seq, device_addr, transport),
                  DispatchArgs(device_addr, 0, transport))

Call_zigbee_blind_close(device_addr, transport) ==
    /\ commands < MaxCommands
    /\ Dispatched("zigbee_blind_close",
                  zigbee_blind_close(s_devices, zigbee_devices_get_count,
                                     s_tuya_seq, device_addr, transport),
                  DispatchArgs(device_addr, 0, transport))

Call_zigbee_blind_stop(device_addr, transport) ==
    /\ commands < MaxCommands
    /\ Dispatched("zigbee_blind_stop",
                  zigbee_blind_stop(s_devices, zigbee_devices_get_count,
                                    s_tuya_seq, device_addr, transport),
                  DispatchArgs(device_addr, 0, transport))

Call_zigbee_blind_set_position(device_addr, percent, transport) ==
    /\ commands < MaxCommands
    /\ Dispatched("zigbee_blind_set_position",
                  zigbee_blind_set_position(s_devices, zigbee_devices_get_count,
                                            s_tuya_seq, device_addr, percent,
                                            transport),
                  DispatchArgs(device_addr, percent, transport))

Call_zigbee_blind_query_position(device_addr, transport) ==
    /\ commands < MaxCommands
    /\ Dispatched("zigbee_blind_query_position",
                  zigbee_blind_query_position(s_devices, zigbee_devices_get_count,
                                              s_tuya_seq, device_addr),
                  DispatchArgs(device_addr, 0, transport))

\* a device is paired while a command is still to come
PairDevice(device) ==
    /\ commands < MaxCommands
    /\ Call_zigbee_devices_add(device, NoFault)

DispatchNext ==
    \/ Call_zigbee_hub_init
    \/ \E d \in DispatchDevices : PairDevice(d)
    \/ \E a \in DispatchAddrs, t \in Statuses : Call_zigbee_blind_open(a, t)
    \/ \E a \in DispatchAddrs, t \in Statuses : Call_zigbee_blind_close(a, t)
    \/ \E a \in DispatchAddrs, t \in Statuses : Call_zigbee_blind_stop(a, t)
    \/ \E a \in DispatchAddrs, p \in Percents, t \in Statuses :
          Call_zigbee_blind_set_position(a, p, t)
    \/ \E a \in DispatchAddrs, t \in Statuses :
          Call_zigbee_blind_query_position(a, t)

DispatchSpec == DispatchInit /\ [][DispatchNext]_vars

(***************************************************************************)
(* Properties of the command dispatcher (DispatchSpec).                    *)
(***************************************************************************)
DispatchOps ==
    {"zigbee_blind_open", "zigbee_blind_close", "zigbee_blind_stop",
     "zigbee_blind_set_position", "zigbee_blind_query_position"}

\* the step is a call of a dispatcher function
DispatchStep == last'.op \in DispatchOps /\ commands' = commands + 1

\* slot i holds a covering that addr selects
Selects(addr, i) ==
    /\ i < s_device_count
    /\ s_devices[i].device_type \in {ZIGBEE_DEVICE_TYPE_BLIND,
                                     ZIGBEE_DEVICE_TYPE_TUYA_BLIND}
    /\ (addr # 0 => s_devices[i].short_addr = addr)

\* the slots of the record a call with addr is to act on: the first
\* covering in registry order that addr selects; empty when there is none
Target(addr) ==
    {i \in Slots : Selects(addr, i) /\ \A j \in Slots : j < i => ~Selects(addr, j)}

IsSend(c) ==
    c.fn \in {"esp_zb_zcl_custom_cluster_cmd_req",
              "esp_zb_zcl_window_covering_cluster_send_cmd_req"}

\* the commands the last call transmitted
Sent == SelectSeq(stack_calls, IsSend)

\* c is a Tuya frame for datapoint dp_id of type data_type with payload data
IsTuyaFrame(c, dp_id, data_type, data) ==
    /\ c.fn = "esp_zb_zcl_custom_cluster_cmd_req"
    /\ c.arg.cluster_id = 61184
    /\ c.arg.custom_cmd_id = 0
    /\ Len(c.arg.data) = 6 + Len(data)
    /\ c.arg.data[3] = dp_id
    /\ c.arg.data[4] = data_type
    /\ c.arg.data[5] = 0
    /\ c.arg.data[6] = Len(data)
    /\ SubSeq(c.arg.data, 7, Len(c.arg.data)) = data

\* c is the window covering command cmd_id with value
IsNative(c, cmd_id, value) ==
    /\ c.fn = "esp_zb_zcl_window_covering_cluster_send_cmd_req"
    /\ c.arg.cmd_id = cmd_id
    /\ c.arg.value = value

\* C13: for every percent p of 0..100, zigbee_blind_set_position on a BLIND
\* record transmits exactly one command, go-to-lift-percentage with value
\* 100 - p, and on a TUYA_BLIND record exactly one command, a frame for the
\* position datapoint (2) of type VALUE (2) with the payload <<0, 0, 0, p>>.
C13_SetPositionEncoding ==
    (last.op = "zigbee_blind_set_position" /\ args.percent \in 0..100)
       => \A i \in Target(args.device_addr) :
             /\ Len(Sent) = 1
             /\ IF s_devices[i].device_type = ZIGBEE_DEVICE_TYPE_BLIND
                THEN IsNative(Sent[1],
                         "ESP_ZB_ZCL_CMD_WINDOW_COVERING_GO_TO_LIFT_PERCENTAGE",
                         <<100 - args.percent>>)
                ELSE IsTuyaFrame(Sent[1], 2, 2, <<0, 0, 0, args.percent>>)

\* C13 witness: 30 percent was commanded to a standard covering
C13_Witness ==
    /\ last.op = "zigbee_blind_set_position"
    /\ args.percent = 30
    /\ \E i \in Target(args.device_addr) :
          s_devices[i].device_type = ZIGBEE_DEVICE_TYPE_BLIND
    /\ Len(Sent) = 1
    /\ Sent[1].arg.value = <<70>>

\* C14: a dispatcher call with address 0 acts on the first covering record
\* in registry order, a call with another address on the first covering
\* record with that short address: what it transmits goes to that record's
\* short address and endpoint. Without such a record it returns
\* ESP_ERR_NOT_FOUND, transmits nothing and changes no state.
C14_Resolution ==
    [][DispatchStep
         => LET T == Target(args'.device_addr) IN
            IF T = {}
            THEN /\ last'.ret = ESP_ERR_NOT_FOUND
                 /\ stack_calls' = <<>>
                 /\ UNCHANGED <<regVars, hubVars, stackVars, reportVars>>
            ELSE /\ last'.ret # ESP_ERR_NOT_FOUND
                 /\ \A i \in T :
                       /\ (last'.op # "zigbee_blind_query_position"
                              \/ s_devices[i].device_type
                                    = ZIGBEE_DEVICE_TYPE_TUYA_BLIND)
                             => Len(Sent') = 1
                       /\ \A k \in 1..Len(Sent') :
                             /\ Sent'[k].arg.addr_short = s_devices[i].short_addr
                             /\ Sent'[k].arg.dst_endpoint = s_devices[i].endpoint]_vars

\* C14 witness: a call with a short address that a light holds in an
\* earlier slot reached the covering that shares the address
C14_Witness ==
    /\ last.op \in DispatchOps
    /\ args.device_addr # 0
    /\ s_device_count = 2
    /\ s_devices[0].device_type = ZIGBEE_DEVICE_TYPE_LIGHT
    /\ s_devices[0].short_addr = args.device_addr
    /\ Target(args.device_addr) = {1}
    /\ Len(Sent) = 1
    /\ Sent[1].arg.dst_endpoint = s_devices[1].endpoint

\* the Tuya control value and the window covering command of an operation
ControlOf(op) ==
    CASE op = "zigbee_blind_open" -> 0
      [] op = "zigbee_blind_stop" -> 1
      [] op = "zigbee_blind_close" -> 2

NativeOf(op) ==
    CASE op = "zigbee_blind_open" -> "ESP_ZB_ZCL_CMD_WINDOW_COVERING_UP_OPEN"
      [] op = "zigbee_blind_stop" -> "ESP_ZB_ZCL_CMD_WINDOW_COVERING_STOP"
      [] op = "zigbee_blind_close" -> "ESP_ZB_ZCL_CMD_WINDOW_COVERING_DOWN_CLOSE"

\* C15: open, close and stop transmit exactly one command, encoded by the
\* kind of the resolved record alone: to a TUYA_BLIND a frame for the control
\* datapoint (1) of type ENUM (4) with the one byte 0 for open, 1 for stop, 2
\* for close; to a BLIND the window covering command up-open, down-close or
\* stop; either goes to the record's short address and endpoint.
C15_ControlEncoding ==
    (last.op \in {"zigbee_blind_open", "zigbee_blind_close", "zigbee_blind_stop"})
       => \A i \in Target(args.device_addr) :
             /\ Len(Sent) = 1
             /\ Sent[1].arg.addr_short = s_devices[i].short_addr
             /\ Sent[1].arg.dst_endpoint = s_devices[i].endpoint
             /\ IF s_devices[i].device_type = ZIGBEE_DEVICE_TYPE_TUYA_BLIND
                THEN IsTuyaFrame(Sent[1], 1, 4, <<ControlOf(last.op)>>)
                ELSE IsNative(Sent[1], NativeOf(last.op), <<>>)

\* C15 witness: close was sent to a vendor covering on endpoint 2
C15_Witness ==
    /\ last.op = "zigbee_blind_close"
    /\ \E i \in Target(args.device_addr) :
          /\ s_devices[i].device_type = ZIGBEE_DEVICE_TYPE_TUYA_BLIND
          /\ s_devices[i].endpoint = 2
    /\ Len(Sent) = 1
    /\ IsTuyaFrame(Sent[1], 1, 4, <<2>>)

\* C16: on a TUYA_BLIND record the five dispatcher functions return ESP_OK
\* whatever status the send reports; on a BLIND record open, close, stop and
\* set_position return the status the send reports.
C16_ReturnStatus ==
    (last.op \in DispatchOps)
       => \A i \in Target(args.device_addr) :
             IF s_devices[i].device_type = ZIGBEE_DEVICE_TYPE_TUYA_BLIND
             THEN last.ret = ESP_OK
             ELSE last.op # "zigbee_blind_query_position"
                     => last.ret = args.transport

\* C16 witness: the send to a vendor covering failed and the call returned
\* ESP_OK
C16_Witness ==
    /\ last.op = "zigbee_blind_set_position"
    /\ args.transport = ESP_FAIL
    /\ last.ret = ESP_OK
    /\ \E i \in Target(args.device_addr) :
          s_devices[i].device_type = ZIGBEE_DEVICE_TYPE_TUYA_BLIND
    /\ Len(Sent) = 1

\* C17: no dispatcher call changes the registry (its count or any record),
\* the store, the bring-up state, the finder-complete flag or the discovery
\* context.
C17_DispatchLeavesState ==
    [][DispatchStep
         => UNCHANGED <<s_devices, s_device_count, s_nvs_handle, nvs,
                        s_network_ready, s_zigbee_state, s_finder_timer,
                        s_finder_elapsed_sec, s_finder_complete,
                        s_device_paired_during_finder, s_discovery_ctx>>]_vars

\* C17 witness: a position was commanded to a paired covering and the
\* sequence counter moved
C17_Witness ==
    /\ last = Observe("zigbee_blind_set_position", ESP_OK, "none")
    /\ args.percent = 60
    /\ s_tuya_seq = 1
    /\ s_device_count = 2
    /\ \A i \in Slots : i < s_device_count => s_devices[i].current_position = 0

(***************************************************************************)
(* The Tuya codec (CodecSpec): tuya_send_command builds frames and         *)
(* zb_action_handler hands the vendor cluster commands it receives to      *)
(* tuya_parse_report. Byte k of the C buffer is data[k + 1] here.          *)
(***************************************************************************)
MaxDp == 8
MaxPayload == 11
MaxReportData == 5

TuyaDps == 0..MaxDp
TuyaTypes == 0..4
PayloadBases == {0, 99, 250}

\* n bytes that differ from place to place
Ramp(n, b) == [k \in 1..n |-> (b + k) % 256]

Payloads == {Ramp(n, b) : n \in 0..MaxPayload, b \in PayloadBases}

\* byte strings a device can send: shorter than a header, and a header that
\* declares one length in front of data of another
Reports ==
    {Ramp(n, 0) : n \in 0..(TUYA_HEADER_LEN - 1)}
    \cup {<<0, 1, dp, t, hi, lo>> \o Ramp(n, b) :
             dp \in TuyaDps, t \in {TUYA_TYPE_VALUE, TUYA_TYPE_ENUM},
             hi \in {0, 1}, lo \in 0..MaxReportData,
             n \in 0..MaxReportData, b \in PayloadBases}

\* the outcome of tuya_parse_report: how it returned, the datapoint id and
\* the data length it decoded, the buffer indices it read, and the position
\* statics it leaves
ParseResult(result, dp_id, data_len, reads, percent, known) ==
    [result |-> result, dp_id |-> dp_id, data_len |-> data_len,
     reads |-> reads, percent |-> percent, known |-> known]

\* variant of tuya_parse_report without the check of the declared length
tuya_parse_report_unchecked(data, len, percent, known) ==
    IF len < 7 THEN ParseResult("too_short", 0, 0, {}, percent, known)
    ELSE
    LET dp_id == data[3]
        data_len == data[5] * 256 + data[6]
        header == {2, 3, 4, 5}
    IN  IF dp_id = 2 /\ data_len >= 1
        THEN ParseResult("parsed", dp_id, data_len,
                         header \cup (IF data_len >= 4 THEN 6..9 ELSE {6}),
                         data[7], TRUE)
        ELSE ParseResult("parsed", dp_id, data_len,
                         header \cup 6..(5 + data_len), percent, known)

\* tuya_parse_report(data, len, src_addr) with the position statics it finds
tuya_parse_report(data, len, percent, known) ==
    IF len < 7 THEN ParseResult("too_short", 0, 0, {}, percent, known)
    ELSE
    LET dp_id == data[3]
        data_len == data[5] * 256 + data[6]
        header == {2, 3, 4, 5}
    IN  IF len < 6 + data_len
        THEN ParseResult("truncated", dp_id, data_len, header, percent, known)
        ELSE CASE dp_id = 1 ->
                 ParseResult("parsed", dp_id, data_len,
                             header \cup (IF data_len >= 1 THEN {6} ELSE {}),
                             percent, known)
             [] dp_id = 2 ->
                 IF data_len >= 4
                 THEN \* pos is the 32-bit big-endian value of bytes 6..9;
                      \* the cast to uint8_t keeps its low eight bits, to
                      \* which byte 6 (shifted by 24) adds nothing
                      LET low24 == data[8] * 65536 + data[9] * 256 + data[10]
                      IN  ParseResult("parsed", dp_id, data_len,
                                      header \cup 6..9, low24 % 256, TRUE)
                 ELSE IF data_len >= 1
                 THEN ParseResult("parsed", dp_id, data_len,
                                  header \cup {6}, data[7], TRUE)
                 ELSE ParseResult("parsed", dp_id, data_len, header,
                                  percent, known)
             [] dp_id \in {3, 5, 7} ->
                 ParseResult("parsed", dp_id, data_len, header \cup {6},
                             percent, known)
             [] OTHER ->
                 ParseResult("parsed", dp_id, data_len,
                             header \cup 6..(5 + data_len), percent, known)

\* the ESP_ZB_CORE_CMD_CUSTOM_CLUSTER_REQ_CB_ID case of zb_action_handler
custom_cluster_req(cluster, data, percent, known) ==
    IF cluster = TUYA_CLUSTER_ID /\ Len(data) > 0
    THEN tuya_parse_report(data, Len(data), percent, known)
    ELSE ParseResult("ignored", 0, 0, {}, percent, known)

\* what the handler was given: the cluster, the bytes, and the arguments of
\* tuya_send_command when the bytes are a frame it built (<<>> otherwise)
ReportArgs(cluster, data, sent) ==
    [cluster |-> cluster, data |-> data, sent |-> sent]

SendArgs(dp_id, data_type, data) ==
    [dp_id |-> dp_id, data_type |-> data_type, data |-> data]

\* zb_action_handler returned
Handled(op, cluster, data, sent) ==
    LET r == custom_cluster_req(cluster, data, s_blind_position_percent,
                                s_blind_position_known)
    IN  /\ s_blind_position_percent' = r.percent
        /\ s_blind_position_known' = r.known
        /\ last' = Observe(op, r.result, "none")
        /\ args' = ReportArgs(cluster, data, sent)
        /\ stack_calls' = <<>>
        /\ transitions' = <<>>
        /\ UNCHANGED <<regVars, hubVars, stackVars, finderTicks, ctxUpserts,
                       nvsFaults, formationFailures, taskVars,
                       tuya_prev_seq, timerVars>>

\* a device sends a vendor or an on/off cluster command
zb_action_handler(cluster, data) ==
    /\ commands < MaxCommands
    /\ commands' = commands + 1
    /\ Handled("zb_action_handler", cluster, data, <<>>)

\* tuya_send_command called with any datapoint, type and data
Call_tuya_send_command(device, dp_id, data_type, data, transport) ==
    /\ commands < MaxCommands
    /\ commands' = commands + 1
    /\ LET r == tuya_send_command(s_devices, device, s_tuya_seq, dp_id,
                                  data_type, data, transport)
       IN  /\ s_devices' = r.devices
           /\ s_tuya_seq' = r.seq
           /\ stack_calls' = r.calls
           /\ last' = Observe("tuya_send_command", r.ret, "none")
    /\ args' = SendArgs(dp_id, data_type, data)
    /\ transitions' = <<>>
    /\ UNCHANGED <<s_device_count, s_nvs_handle, nvs, s_network_ready,
                   s_zigbee_state, s_finder_timer, s_finder_elapsed_sec,
                   s_finder_complete, s_device_paired_during_finder,
                   s_discovery_ctx, stackVars, finderTicks, ctxUpserts,
                   nvsFaults, formationFailures, reportVars, taskVars, timerVars>>
    /\ tuya_prev_seq' = LastFrameSeq(tuya_prev_seq, stack_calls')

\* the device returns the frame it was just sent
EchoFrame ==
    /\ last = Observe("tuya_send_command", ESP_OK, "none")
    /\ Len(stack_calls) = 3
    /\ UNCHANGED commands
    /\ Handled("zb_action_handler:echo", TUYA_CLUSTER_ID,
               stack_calls[2].arg.data, args)

\* the statics at boot, or after a position report
CodecInit ==
    /\ s_devices = [i \in Slots |-> ZeroDevice]
    /\ s_device_count = 0
    /\ s_nvs_handle = 0
    /\ s_network_ready = FALSE
    /\ s_zigbee_state = ZIGBEE_STATE_INITIALIZING
    /\ s_finder_timer = FALSE
    /\ s_finder_elapsed_sec = 0
    /\ s_finder_complete = FALSE
    /\ s_device_paired_during_finder = FALSE
    /\ s_discovery_ctx = ZeroCtx
    /\ s_tuya_seq = 0
    /\ \E known \in BOOLEAN :
          /\ s_blind_position_known = known
          /\ s_blind_position_percent = IF known THEN 40 ELSE 0
    /\ nvs = EmptyStore
    /\ bdb = "off"
    /\ factory_new = TRUE
    /\ zdo_pending = EmptyBag
    /\ last = Observe("boot", "-", "none")
    /\ stack_calls = <<>>
    /\ transitions = <<>>
    /\ finderTicks = 0
    /\ ctxUpserts = 0
    /\ nvsFaults = 0
    /\ formationFailures = 0
    /\ commands = 0
    /\ zb_task = IdleTask
    /\ cmd_task = IdleTask
    /\ tuya_prev_seq = -1
    /\ s_scan_timer = FALSE
    /\ s_scan_interval_sec = 0
    /\ scan_timers_live = 0
    /\ timer_task = IdleTask
    /\ finder_timer_deletes = 0
    /\ args = <<>>

CodecNext ==
    \/ \E d \in TuyaDps, t \in TuyaTypes, p \in Payloads, e \in Statuses :
          Call_tuya_send_command(StoredDevice, d, t, p, e)
    \/ EchoFrame
    \/ \E c \in {TUYA_CLUSTER_ID, ESP_ZB_ZCL_CLUSTER_ID_ON_OFF}, r \in Reports :
          zb_action_handler(c, r)

CodecSpec == CodecInit /\ [][CodecNext]_vars

(***************************************************************************)
(* Properties of the Tuya codec (CodecSpec).                               *)
(***************************************************************************)
\* the step is a call of zb_action_handler
ReportStep == last'.op \in {"zb_action_handler", "zb_action_handler:echo"}

\* what tuya_parse_report makes of the bytes the handler was given
Parsed == tuya_parse_report(args.data, Len(args.data),
                            s_blind_position_percent, s_blind_position_known)

\* C18: for every datapoint id, type and data that fits the frame buffer,
\* the empty data included, the frame tuya_send_command builds is accepted
\* by tuya_parse_report, which decodes the same datapoint id and delimits
\* the same data bytes.
C18_RoundTrip ==
    (last.op = "zb_action_handler:echo")
       => /\ last.ret = "parsed"
          /\ Parsed.dp_id = args.sent.dp_id
          /\ Parsed.data_len = Len(args.sent.data)
          /\ SubSeq(args.data, 7, 6 + Parsed.data_len) = args.sent.data

\* bytes of a report are missing: it is shorter than the header, or the
\* header declares more data than follows it
Malformed(data) ==
    \/ Len(data) < 6
    \/ data[5] * 256 + data[6] > Len(data) - 6

\* C19: a vendor cluster command shorter than 6 bytes, or whose declared
\* length exceeds the bytes after the 6-byte header, is rejected:
\* tuya_parse_report reads no index at or beyond the end of the buffer and
\* the position and its known flag stay as they were.
C19_MalformedRejected ==
    [][(ReportStep /\ args'.cluster = TUYA_CLUSTER_ID /\ Malformed(args'.data))
          => /\ last'.ret \in {"ignored", "too_short", "truncated"}
             /\ \A k \in tuya_parse_report(args'.data, Len(args'.data),
                                            s_blind_position_percent,
                                            s_blind_position_known).reads :
                   k < Len(args'.data)
             /\ UNCHANGED reportVars]_vars

\* C19 witness: a position report that declares four bytes and brings two
\* was rejected and the known position kept
C19_Witness ==
    /\ last = Observe("zb_action_handler", "truncated", "none")
    /\ args.data[3] = 2
    /\ args.data[6] = 4
    /\ Len(args.data) = 8
    /\ s_blind_position_known
    /\ s_blind_position_percent = 40

\* C20: a vendor cluster command of at least 6 bytes whose declared length
\* does not exceed the bytes after the header - 6 bytes with a declared
\* length of 0 included - is accepted: tuya_parse_report decodes the
\* datapoint id of byte 2, takes a position from datapoint 2 and reads no
\* index at or beyond the end of the buffer.
C20_WellFormedAccepted ==
    (/\ last.op \in {"zb_action_handler", "zb_action_handler:echo"}
     /\ args.cluster = TUYA_CLUSTER_ID
     /\ ~Malformed(args.data))
       => /\ last.ret = "parsed"
          /\ Parsed.dp_id = args.data[3]
          /\ \A k \in Parsed.reads : k < Len(args.data)
          /\ (args.data[3] = 2 /\ Parsed.data_len >= 1)
                => s_blind_position_known

(***************************************************************************)
(* C21. The stack-wide lock around the calls of timer and command context. *)
(***************************************************************************)
IsLockCall(c) == c.fn \in {"esp_zb_lock_acquire", "esp_zb_lock_release"}

\* how often the lock is held after the first k calls of a handler
RECURSIVE LockDepth(_, _)
LockDepth(calls, k) ==
    IF k = 0 THEN 0
    ELSE LockDepth(calls, k - 1)
           + (IF calls[k].fn = "esp_zb_lock_acquire" THEN 1
              ELSE IF calls[k].fn = "esp_zb_lock_release" THEN -1 ELSE 0)

\* every stack call of the handler is made with the lock held once, and the
\* lock is free when the handler returns
Bracketed(calls) ==
    /\ \A k \in 1..Len(calls) :
          /\ LockDepth(calls, k) \in {0, 1}
          /\ ~IsLockCall(calls[k]) => LockDepth(calls, k) = 1
    /\ LockDepth(calls, Len(calls)) = 0

\* C21: every call into the mesh stack made by a finder tick or by a
\* command is made while the caller holds the stack lock, which is acquired
\* once and released before the handler returns.
C21_LockBracketing ==
    (last.op \in DispatchOps \cup {"finder_mode_timer_callback"})
       => Bracketed(stack_calls)

(***************************************************************************)
(* The registry under two tasks.  The signal handler runs on the task       *)
(* "zigbee_main" and writes the registry through zigbee_devices_add; the    *)
(* blind commands run on the task of their caller and read it through       *)
(* get_blind_device and the pointer it returns.  Neither side takes a lock  *)
(* for the registry, so the steps of the two interleave.                    *)
(***************************************************************************)
MaxRaceCommands == 2

\* the members of zigbee_device_t that the memcpy of zigbee_devices_add
\* copies; the order in which they become visible to another task is not
\* fixed
DeviceFields == {"short_addr", "ieee_addr", "endpoint", "device_type",
                 "is_online", "current_position"}

\* the announcement of a stored device under a new short address: the
\* handler up to the memcpy of zigbee_devices_add.  It is taken once
\* commissioning has ended, so that no other signal is due on the task
\* before the handler returns.
Race_DEVICE_ANNCE(ieee_addr, device_short_addr) ==
    /\ s_network_ready
    /\ bdb = "idle"
    /\ zb_task.pc = "idle"
    /\ LET i == FindIeee(s_devices, zigbee_devices_get_count, ieee_addr, 0) IN
       /\ i >= 0
       /\ s_devices[i].short_addr # device_short_addr
       /\ zb_task' = [pc |-> "memcpy", slot |-> i, old |-> s_devices[i],
                      device |-> updated(s_devices[i], device_short_addr),
                      left |-> DeviceFields]
    /\ UNCHANGED <<regVars, hubVars, stackVars, reportVars, last, stack_calls,
                   transitions, finderTicks, ctxUpserts, nvsFaults,
                   formationFailures, commands, cmd_task, tuya_prev_seq, timerVars,
                   args>>

\* memcpy(&s_devices[i], device, sizeof(zigbee_device_t)): one member
Race_memcpy(field) ==
    /\ zb_task.pc = "memcpy"
    /\ field \in zb_task.left
    /\ s_devices' = [s_devices EXCEPT
                        ![zb_task.slot][field] = zb_task.device[field]]
    /\ zb_task' = [zb_task EXCEPT
                      !.left = @ \ {field},
                      !.pc = IF zb_task.left = {field} THEN "save" ELSE @]
    /\ UNCHANGED <<s_device_count, s_nvs_handle, nvs, hubVars, stackVars,
                   reportVars, last, stack_calls, transitions, finderTicks,
                   ctxUpserts, nvsFaults, formationFailures, commands,
                   cmd_task, tuya_prev_seq, timerVars, args>>

\* return zigbee_devices_save(), and the rest of the announcement handler
Race_zigbee_devices_save ==
    /\ zb_task.pc = "save"
    /\ LET r == zigbee_devices_save(s_devices, s_device_count, s_nvs_handle,
                                    nvs, NoFault)
       IN  /\ nvs' = r.nvs
           /\ last' = Observe("DEVICE_ANNCE", "rejoin", r.ret)
    /\ zb_task' = IdleTask
    /\ stack_calls' = <<>>
    /\ transitions' = <<>>
    /\ args' = <<>>
    /\ UNCHANGED <<s_devices, s_device_count, s_nvs_handle, hubVars,
                   stackVars, reportVars, finderTicks, ctxUpserts, nvsFaults,
                   formationFailures, commands, cmd_task, tuya_prev_seq, timerVars>>

\* zigbee_blind_open up to the return of get_blind_device: NULL ends the
\* command, otherwise the task holds a pointer to the slot
Race_get_blind_device(device_addr) ==
    /\ cmd_task.pc = "idle"
    /\ commands < MaxRaceCommands
    /\ LET i == get_blind_device(s_devices, zigbee_devices_get_count,
                                 device_addr)
       IN  IF i < 0
           THEN /\ cmd_task' = IdleTask
                /\ commands' = commands + 1
                /\ last' = Observe("zigbee_blind_open", ESP_ERR_NOT_FOUND,
                                   "none")
                /\ stack_calls' = <<>>
                /\ transitions' = <<>>
                /\ args' = DispatchArgs(device_addr, 0, ESP_OK)
           ELSE /\ cmd_task' = [pc |-> "resolved", device_addr |-> device_addr,
                                slot |-> i, matched |-> s_devices[i]]
                /\ UNCHANGED <<commands, last, stack_calls, transitions,
                               args>>
    /\ UNCHANGED <<regVars, hubVars, stackVars, reportVars, finderTicks,
                   ctxUpserts, nvsFaults, formationFailures, zb_task,
                   tuya_prev_seq, timerVars>>

\* the rest of zigbee_blind_open: the kind, the short address and the
\* endpoint are read through the pointer and the command is sent
Race_zigbee_blind_open(transport) ==
    /\ cmd_task.pc = "resolved"
    /\ LET blind == s_devices[cmd_task.slot]
           r == IF blind.device_type = ZIGBEE_DEVICE_TYPE_TUYA_BLIND
                THEN tuya_blind_control(s_devices, blind, s_tuya_seq,
                                        TUYA_BLIND_OPEN, transport)
                ELSE window_covering_cmd(s_devices, blind, s_tuya_seq,
                         "ESP_ZB_ZCL_CMD_WINDOW_COVERING_UP_OPEN", <<>>,
                         transport)
       IN  /\ s_tuya_seq' = r.seq
           /\ stack_calls' = r.calls
           /\ last' = Observe("zigbee_blind_open", r.ret, "none")
    /\ commands' = commands + 1
    /\ cmd_task' = IdleTask
    /\ args' = DispatchArgs(cmd_task.device_addr, 0, transport)
    /\ transitions' = <<>>
    /\ UNCHANGED <<regVars, s_network_ready, s_zigbee_state, s_finder_timer,
                   s_finder_elapsed_sec, s_finder_complete,
                   s_device_paired_during_finder, s_discovery_ctx, stackVars,
                   reportVars, finderTicks, ctxUpserts, nvsFaults,
                   formationFailures, zb_task, timerVars>>
    /\ tuya_prev_seq' = LastFrameSeq(tuya_prev_seq, stack_calls')

RaceNext ==
    \/ BringUp
    \/ \E i \in Ieee, a \in ShortAddrs : Race_DEVICE_ANNCE(i, a)
    \/ \E field \in DeviceFields : Race_memcpy(field)
    \/ Race_zigbee_devices_save
    \/ \E a \in DispatchAddrs : Race_get_blind_device(a)
    \/ \E e \in Statuses : Race_zigbee_blind_open(e)

RaceSpec == ClassifyInit /\ [][RaceNext]_vars

(***************************************************************************)
(* C22. Registry accesses of the two tasks.                                *)
(***************************************************************************)
\* a step of the command task
CmdStep == cmd_task' # cmd_task \/ commands' = commands + 1

\* C22: no step of a command reads the registry while the signal handler is
\* in the middle of writing a slot, and the command that is sent goes to the
\* short address of the record that get_blind_device matched.
C22_MutualExclusion ==
    [][CmdStep
         => /\ zb_task.pc # "memcpy"
            /\ (cmd_task.pc = "resolved"
                  => \E k \in 1..Len(stack_calls') :
                        /\ IsSend(stack_calls'[k])
                        /\ stack_calls'[k].arg.addr_short
                              = cmd_task.matched.short_addr)]_vars

(***************************************************************************)
(* C23. Formation retries.                                                 *)
(***************************************************************************)
\* the formation signal was handled
FormationStep == bdb = "formation" /\ last'.op = "FORMATION"

\* C23: a failed formation leaves the state FormingNetwork and network-ready
\* false and schedules the next attempt 1000 ms later, however many attempts
\* failed before; the alarm starts formation again; a successful formation
\* sets network-ready and starts steering.
C23_FormationRetry ==
    [][/\ FormationStep
          => /\ s_zigbee_state = ZIGBEE_STATE_FORMING_NETWORK
             /\ ~s_network_ready
             /\ IF last'.ret # ESP_OK
                THEN /\ s_zigbee_state' = ZIGBEE_STATE_FORMING_NETWORK
                     /\ ~s_network_ready'
                     /\ stack_calls' = <<StackCall("esp_zb_scheduler_alarm", 1000)>>
                     /\ bdb' = "formation_alarm"
                ELSE /\ s_network_ready'
                     /\ s_zigbee_state' = ZIGBEE_STATE_FORMING_NETWORK
                     /\ stack_calls' = <<start_commissioning_STEERING>>
                     /\ bdb' = "steering"
       /\ (bdb = "formation_alarm" /\ bdb' # bdb)
          => /\ stack_calls' = <<start_commissioning_FORMATION>>
             /\ bdb' = "formation"
             /\ UNCHANGED <<s_zigbee_state, s_network_ready>>]_vars

\* the second failed attempt in a row has been handled
C23_Witness ==
    /\ last = Observe("FORMATION", ESP_FAIL, "none")
    /\ formationFailures = MaxFormationFailures
    /\ bdb = "formation_alarm"

(***************************************************************************)
(* C24. Boot with a formed network and stored devices.                     *)
(***************************************************************************)
\* C24: when the startup signal finds a formed network and a registry that
\* is not empty, the handler passes through Reconnecting, opens the join
\* window and ends in Ready with finder-complete set, all in that one
\* signal, and the finder timer is not started.
C24_ReconnectInOneSignal ==
    [][(bdb = "initialization" /\ last'.op = "DEVICE_START"
          /\ ~factory_new /\ s_device_count > 0 /\ last'.ret # "failed")
         => /\ transitions' = <<ZIGBEE_STATE_RECONNECTING, ZIGBEE_STATE_READY>>
            /\ s_zigbee_state' = ZIGBEE_STATE_READY
            /\ s_finder_complete'
            /\ s_network_ready'
            /\ InSeq(esp_zb_bdb_open_network(60), stack_calls')
            /\ ~s_finder_timer'
            /\ UNCHANGED <<finderTicks, s_finder_elapsed_sec, regVars,
                           zdo_pending>>]_vars

\* the startup signal of such a boot has been handled
C24_Witness ==
    /\ last = Observe("DEVICE_START", "stored_devices", "none")
    /\ s_zigbee_state = ZIGBEE_STATE_READY
    /\ s_device_count > 0
    /\ s_finder_complete

(***************************************************************************)
(* The coordinator with its command task: bring-up, discovery, the finder  *)
(* timer, and blind commands that arrive at any time.                      *)
(***************************************************************************)
HubNext ==
    \/ BringUp
    \/ Discovery
    \/ FinderTimer
    \/ \E a \in DispatchAddrs, t \in Statuses : Call_zigbee_blind_open(a, t)
    \/ \E a \in DispatchAddrs, t \in Statuses :
          Call_zigbee_blind_query_position(a, t)

HubSpec == Init /\ [][HubNext]_vars

(***************************************************************************)
(* C25. The state Failed.                                                  *)
(***************************************************************************)
\* C25: the state becomes Failed only in the failure branch of the startup
\* signal, which sets finder-complete in the same step; once the state is
\* Failed no step changes it.
C25_FailedIsFinal ==
    [][/\ (s_zigbee_state' = ZIGBEE_STATE_FAILED
             /\ s_zigbee_state # ZIGBEE_STATE_FAILED)
          => /\ bdb = "initialization"
             /\ last' = Observe("DEVICE_START", "failed", "none")
             /\ s_finder_complete'
       /\ s_zigbee_state = ZIGBEE_STATE_FAILED
          => /\ s_zigbee_state' = ZIGBEE_STATE_FAILED
             /\ s_finder_complete']_vars

\* a command was handled in the state Failed
C25_Witness ==
    /\ s_zigbee_state = ZIGBEE_STATE_FAILED
    /\ s_finder_complete
    /\ last.op \in DispatchOps

(***************************************************************************)
(* C26. A device is registered during the search.                          *)
(***************************************************************************)
\* zb_simple_desc_cb stored a record
RegisteredStep ==
    last' = Observe("zb_simple_desc_cb", "added", ESP_OK)

\* C26: when zb_simple_desc_cb registers a device in the state FinderMode,
\* the state becomes Ready, finder-complete becomes true and the finder timer
\* is stopped and deleted, so that no tick follows; in any other state the
\* registration leaves the state and finder-complete as they are.  A tick
\* is taken only while the timer exists.
C26_RegistrationEndsSearch ==
    [][/\ RegisteredStep
          => IF s_zigbee_state = ZIGBEE_STATE_FINDER_MODE
             THEN /\ s_zigbee_state' = ZIGBEE_STATE_READY
                  /\ s_finder_complete'
                  /\ ~s_finder_timer'
                  /\ s_device_paired_during_finder'
             ELSE UNCHANGED <<s_zigbee_state, s_finder_complete,
                              s_finder_timer>>
       /\ last'.op = "finder_mode_timer_callback" => s_finder_timer]_vars

\* a device was registered while the search was on
C26_Witness ==
    /\ last = Observe("zb_simple_desc_cb", "added", ESP_OK)
    /\ transitions = <<ZIGBEE_STATE_READY>>
    /\ s_zigbee_state = ZIGBEE_STATE_READY
    /\ ~s_finder_timer
    /\ s_device_paired_during_finder

(***************************************************************************)
(* C27. A discovery that fails.                                            *)
(***************************************************************************)
\* a discovery callback that reports a failed query, or a descriptor without
\* a cluster the coordinator knows
DroppedStep ==
    \/ last' = Observe("zb_active_ep_cb", "dropped", "none")
    \/ /\ last'.op = "zb_simple_desc_cb"
       /\ IF last'.ret = "failed" THEN TRUE
          ELSE KindOfClusterSet(InputClusterSet(args'))
                  = ZIGBEE_DEVICE_TYPE_UNKNOWN

\* C27: when the active endpoint query fails or returns no endpoint, when
\* the simple descriptor query fails, or when the descriptor lists no known
\* cluster, the callback returns without a trace: the registry and its
\* store, the discovery context with its registered flag and the bring-up
\* state are unchanged, and no query is sent.
C27_FailedDiscoveryDropped ==
    [][DroppedStep
         => /\ UNCHANGED <<regVars, hubVars>>
            /\ stack_calls' = <<>>
            /\ BagCardinality(zdo_pending') = BagCardinality(zdo_pending) - 1
            /\ \A q \in BagToSet(zdo_pending') :
                   CopiesIn(q, zdo_pending') <= CopiesIn(q, zdo_pending)]_vars

\* a descriptor without a known cluster was dropped while the device was
\* not registered
C27_Witness ==
    /\ last = Observe("zb_simple_desc_cb", "skipped", "none")
    /\ ~s_discovery_ctx.device_registered
    /\ FindIeee(s_devices, s_device_count, s_discovery_ctx.ieee_addr, 0) < 0

(***************************************************************************)
(* C28. The announcement of a stored device.                               *)
(***************************************************************************)
\* C28: when a device whose record is of type TUYA_BLIND announces itself
\* again, the handler leaves the record online and sends a position query to
\* the announced short address, whether the address changed or not.
C28_RejoinQueriesPosition ==
    [][(last'.op = "DEVICE_ANNCE" /\ last'.ret = "rejoin")
         => LET i == FindIeee(s_devices, s_device_count, args'.ieee_addr, 0)
            IN  (i >= 0
                 /\ s_devices[i].device_type = ZIGBEE_DEVICE_TYPE_TUYA_BLIND)
                   => /\ s_devices'[i].is_online
                      /\ \E k \in 1..Len(stack_calls') :
                            /\ IsSend(stack_calls'[k])
                            /\ stack_calls'[k].arg.addr_short
                                  = args'.device_short_addr]_vars

(***************************************************************************)
(* C29. The sequence numbers of the Tuya frames.                           *)
(***************************************************************************)
\* C29: each Tuya frame carries the sequence number of the frame sent before
\* it plus one, modulo 256, whichever command sent either of them, and a
\* handler that sends no Tuya frame leaves the counter as it is.
C29_SequenceNumbers ==
    [][LET fs == FrameSeqs(stack_calls', 1) IN
       /\ \A k \in 1..Len(fs) :
             LET prev == IF k = 1 THEN tuya_prev_seq ELSE fs[k - 1]
             IN  prev >= 0 => fs[k] = (prev + 1) % 256
       /\ (fs = <<>> /\ s_zigbee_state' # ZIGBEE_STATE_INITIALIZING)
             => s_tuya_seq' = s_tuya_seq]_vars

(***************************************************************************)
(* C30. zigbee_devices_remove.                                             *)
(***************************************************************************)
\* the slots below n that hold short address a
SlotsOfShort(devs, n, a) == {i \in Slots : i < n /\ devs[i].short_addr = a}

\* the store holds the registry devs, n: a load returns just that
Committed(store, devs, n) ==
    LET r == zigbee_devices_init(store, [i \in Slots |-> ZeroDevice], 0)
    IN  /\ r.count = n
        /\ \A i \in Slots : i < n => r.devices[i] = devs[i]

\* C30: zigbee_devices_remove of a short address that no record holds
\* returns ESP_ERR_NOT_FOUND and leaves the registry and the store as they
\* are.  Otherwise the first record with that short address is deleted: the
\* count drops by one, the records before it stay in their slots and the
\* records after it move down by one slot in the same order; and when the
\* call returns ESP_OK the store holds that registry.
C30_Remove ==
    [][\A a \in ShortAddrs, f \in Faults :
         Call_zigbee_devices_remove(a, f)
            => LET M == SlotsOfShort(s_devices, s_device_count, a) IN
               IF M = {}
               THEN /\ last'.ret = ESP_ERR_NOT_FOUND
                    /\ UNCHANGED regVars
               ELSE LET m == CHOOSE i \in M : \A j \in M : i <= j IN
                    /\ last'.ret # ESP_ERR_NOT_FOUND
                    /\ s_device_count' = s_device_count - 1
                    /\ \A j \in Slots :
                          j < s_device_count'
                             => s_devices'[j]
                                  = s_devices[IF j < m THEN j ELSE j + 1]
                    /\ (last'.ret = ESP_OK
                          => Committed(nvs', s_devices', s_device_count'))]_vars

\* a record was removed, another one is left, and the result was committed
C30_Witness ==
    /\ last = Observe("zigbee_devices_remove", ESP_OK, "none")
    /\ s_device_count >= 1
    /\ s_devices[0].ieee_addr \in Ieee
    /\ Committed(nvs, s_devices, s_device_count)


(***************************************************************************)
(* Periodic device scanning (zigbee_hub.c, "DEVICE SCANNING").  The scan   *)
(* state is passed as a record s so that zigbee_start_device_scan can run  *)
(* zigbee_stop_device_scan and the first scan inline, as the code does.    *)
(***************************************************************************)
\* the largest interval the command channel passes on ("zigbee:scan:XX")
MaxScanInterval == 3600

\* intervals tried: 0, the two fixed intervals of the command channel, and
\* values of "zigbee:scan:XX" around the width of the join-window argument
ScanIntervals ==
    {0, ZIGBEE_FINDER_SCAN_INTERVAL, 10, 250, 251, MaxScanInterval}

ScanRec ==
    [timer |-> s_scan_timer, interval |-> s_scan_interval_sec,
     live |-> scan_timers_live, calls |-> <<>>]

\* zigbee_stop_device_scan
zigbee_stop_device_scan(s) ==
    [s EXCEPT !.timer = FALSE,
              !.live = IF s.timer THEN @ - 1 ELSE @,
              !.interval = 0]

\* scan_timer_callback: the mesh stack calls of one scan
scan_timer_callback(network_ready, interval) ==
    IF ~network_ready THEN <<>>
    ELSE <<esp_zb_lock_acquire, esp_zb_nwk_get_next_neighbor,
           esp_zb_lock_release, esp_zb_bdb_open_network(interval + 5)>>

\* variant of zigbee_start_device_scan that does not stop the old timer
zigbee_start_device_scan_no_stop(s, network_ready, interval_sec, timer_outcome) ==
    IF interval_sec = 0 THEN zigbee_stop_device_scan(s)
    ELSE IF timer_outcome # "ok" THEN [s EXCEPT !.interval = interval_sec]
    ELSE [s EXCEPT !.interval = interval_sec,
                   !.timer = TRUE,
                   !.live = @ + 1,
                   !.calls = scan_timer_callback(network_ready, interval_sec)]

\* zigbee_start_device_scan
zigbee_start_device_scan(s, network_ready, interval_sec, timer_outcome) ==
    LET s1 == zigbee_stop_device_scan(s)
    IN  IF interval_sec = 0 THEN s1
        ELSE LET s2 == [s1 EXCEPT !.interval = interval_sec]
             IN  IF timer_outcome = "create_failed" THEN s2
                 \* created, then deleted again: esp_timer_start_periodic failed
                 ELSE IF timer_outcome = "start_failed" THEN s2
                 ELSE [s2 EXCEPT !.timer = TRUE,
                                 !.live = @ + 1,
                                 !.calls = scan_timer_callback(network_ready,
                                                               interval_sec)]

\* zigbee_permit_join
zigbee_permit_join(network_ready, duration_sec) ==
    IF ~network_ready THEN <<>>
    ELSE <<esp_zb_bdb_open_network(duration_sec)>>

SetScan(s) ==
    /\ s_scan_timer' = s.timer
    /\ s_scan_interval_sec' = s.interval
    /\ scan_timers_live' = s.live
    /\ stack_calls' = s.calls

\* what a scan step leaves alone
ScanFrame ==
    /\ transitions' = <<>>
    /\ UNCHANGED <<regVars, hubVars, stackVars, reportVars, finderTicks,
                   ctxUpserts, nvsFaults, formationFailures, commands,
                   taskVars, tuya_prev_seq, timer_task, finder_timer_deletes>>

\* "zigbee:scan", "zigbee:scan:XX" (command task)
Call_zigbee_start_device_scan(interval_sec, timer_outcome) ==
    /\ SetScan(zigbee_start_device_scan(ScanRec, s_network_ready,
                                        interval_sec, timer_outcome))
    /\ last' = Observe("zigbee_start_device_scan", "-", "none")
    /\ args' = [interval_sec |-> interval_sec, running |-> s_scan_timer]
    /\ ScanFrame

\* "zigbee:scan:stop" (command task)
Call_zigbee_stop_device_scan ==
    /\ SetScan(zigbee_stop_device_scan(ScanRec))
    /\ last' = Observe("zigbee_stop_device_scan", "-", "none")
    /\ args' = <<>>
    /\ ScanFrame

\* the periodic scan timer fires (esp_timer task)
ScanTimer ==
    /\ s_scan_timer
    /\ stack_calls' = scan_timer_callback(s_network_ready, s_scan_interval_sec)
    /\ last' = Observe("scan_timer_callback", "-", "none")
    /\ args' = <<>>
    /\ UNCHANGED <<s_scan_timer, s_scan_interval_sec, scan_timers_live>>
    /\ ScanFrame

\* "blinds:pair", "zigbee:finder" (command task)
Call_zigbee_permit_join(duration_sec) ==
    /\ stack_calls' = zigbee_permit_join(s_network_ready, duration_sec)
    /\ last' = Observe("zigbee_permit_join", "-", "none")
    /\ args' = [duration_sec |-> duration_sec]
    /\ UNCHANGED <<s_scan_timer, s_scan_interval_sec, scan_timers_live>>
    /\ ScanFrame

\* bring-up, the finder timer, and the scan commands of the command channel
ScanNext ==
    \/ BringUp
    \/ FinderTimer
    \/ \E i \in ScanIntervals, t \in TimerOutcomes :
          Call_zigbee_start_device_scan(i, t)
    \/ Call_zigbee_stop_device_scan
    \/ ScanTimer
    \/ Call_zigbee_permit_join(ZIGBEE_FINDER_TIMEOUT_SEC)

ScanSpec == Init /\ [][ScanNext]_vars

(***************************************************************************)
(* C31. Scan timer life cycle.                                             *)
(***************************************************************************)
\* C31: after any sequence of start and stop calls at most one scan timer
\* exists, and it is the one s_scan_timer refers to; a start with interval 0
\* leaves no timer and makes no scan; a stop leaves no timer and interval 0;
\* a scan tick makes no mesh stack call while the network is not ready
C31_ScanTimer ==
    /\ scan_timers_live = (IF s_scan_timer THEN 1 ELSE 0)
    /\ (last.op = "zigbee_start_device_scan" /\ args.interval_sec = 0)
          => (~s_scan_timer /\ stack_calls = <<>>)
    /\ last.op = "zigbee_stop_device_scan"
          => (~s_scan_timer /\ s_scan_interval_sec = 0)
    /\ (last.op = "scan_timer_callback" /\ ~s_network_ready)
          => stack_calls = <<>>

\* a start found a timer running and has replaced it by a new one, whose
\* first scan was made
C31_Witness ==
    /\ last.op = "zigbee_start_device_scan"
    /\ args.interval_sec = 10
    /\ args.running
    /\ s_scan_timer
    /\ scan_timers_live = 1
    /\ s_network_ready
    /\ stack_calls # <<>>

(***************************************************************************)
(* C40. The join window a scan re-opens.                                   *)
(***************************************************************************)
\* a scan was made: the first one of a start, or one of a tick
ScanMade ==
    /\ last.op \in {"zigbee_start_device_scan", "scan_timer_callback"}
    /\ stack_calls # <<>>

\* C40: for every interval of 1..3600 s each scan re-opens the join window
\* for at least the scan interval
C40_JoinWindow ==
    ScanMade =>
        /\ stack_calls[Len(stack_calls)].fn = "esp_zb_bdb_open_network"
        /\ stack_calls[Len(stack_calls)].arg >= s_scan_interval_sec

(***************************************************************************)
(* The finder tick and the classification callback, step by step.  The     *)
(* tick runs on the esp_timer task (dispatch_method ESP_TIMER_TASK), the   *)
(* callback on "zigbee_main"; stop_finder_mode takes no lock, so its       *)
(* statements interleave.                                                  *)
(***************************************************************************)
FinderTasks == {"esp_timer", "zigbee_main"}

TaskOf(t) == IF t = "esp_timer" THEN timer_task ELSE zb_task

SetTask(t, v) ==
    IF t = "esp_timer" THEN timer_task' = v /\ UNCHANGED zb_task
    ELSE zb_task' = v /\ UNCHANGED timer_task

\* the handler on whose behalf task t runs stop_finder_mode
HandlerOf(t) ==
    IF t = "esp_timer" THEN "finder_mode_timer_callback"
    ELSE "zb_simple_desc_cb"

\* what a step inside stop_finder_mode leaves alone
StopFrame ==
    UNCHANGED <<regVars, s_network_ready, s_finder_elapsed_sec,
                s_discovery_ctx, s_tuya_seq, stackVars, reportVars,
                finderTicks, ctxUpserts, nvsFaults, formationFailures,
                commands, cmd_task, tuya_prev_seq, s_scan_timer,
                s_scan_interval_sec, scan_timers_live>>

\* finder_mode_timer_callback up to its call of stop_finder_mode
Race_finder_mode_timer_callback ==
    /\ timer_task.pc = "idle"
    /\ s_finder_timer
    /\ s_finder_elapsed_sec' = s_finder_elapsed_sec + ZIGBEE_FINDER_SCAN_INTERVAL
    /\ finderTicks' = finderTicks + 1
    /\ IF zigbee_devices_get_count > 0
       THEN /\ stack_calls' = <<>>
            /\ timer_task' = [pc |-> "stop", paired |-> TRUE]
       ELSE /\ stack_calls' =
                  <<esp_zb_lock_acquire, esp_zb_nwk_get_next_neighbor,
                    esp_zb_lock_release,
                    esp_zb_bdb_open_network(ZIGBEE_FINDER_SCAN_INTERVAL + 2)>>
            /\ timer_task' =
                  IF s_finder_elapsed_sec' >= ZIGBEE_FINDER_TIMEOUT_SEC
                  THEN [pc |-> "stop", paired |-> FALSE]
                  ELSE IdleTask
    /\ last' = Observe("finder_mode_timer_callback", "-", "none")
    /\ transitions' = <<>>
    /\ args' = <<>>
    /\ UNCHANGED <<regVars, s_network_ready, s_zigbee_state, s_finder_timer,
                   s_finder_complete, s_device_paired_during_finder,
                   s_discovery_ctx, s_tuya_seq, stackVars, reportVars,
                   ctxUpserts, nvsFaults, formationFailures, commands,
                   taskVars, tuya_prev_seq, s_scan_timer, s_scan_interval_sec,
                   scan_timers_live, finder_timer_deletes>>

\* zb_simple_desc_cb up to its call of stop_finder_mode; the callback as a
\* whole when it does not get there
Race_zb_simple_desc_cb(req, zdo_status) ==
    /\ zb_task.pc = "idle"
    /\ LET simple_desc == DescriptorOf(req.ieee)
           detected_type == IF zdo_status = "SUCCESS"
                            THEN DetectedType(simple_desc)
                            ELSE ZIGBEE_DEVICE_TYPE_UNKNOWN
           outcome == simple_desc_outcome(zdo_status,
                                          s_discovery_ctx.device_registered,
                                          detected_type)
       IN  IF outcome = "added" /\ s_zigbee_state = ZIGBEE_STATE_FINDER_MODE
           THEN
               LET device == zigbee_device_t(s_discovery_ctx.short_addr,
                                             s_discovery_ctx.ieee_addr,
                                             req.endpoint, detected_type,
                                             TRUE, 0)
                   r == zigbee_devices_add(s_devices, s_device_count,
                                           s_nvs_handle, nvs, device, NoFault)
               IN  /\ BagIn(req, zdo_pending)
                   /\ req.type = "simple_desc"
                   /\ InSeq(req.endpoint, EndpointsOf(req.ieee))
                   /\ zdo_pending' = zdo_pending (-) SetToBag({req})
                   /\ s_devices' = r.devices
                   /\ s_device_count' = r.count
                   /\ nvs' = r.nvs
                   /\ s_discovery_ctx' =
                          [s_discovery_ctx EXCEPT !.device_registered = TRUE]
                   /\ ctxUpserts' = ctxUpserts + 1
                   /\ zb_task' = [pc |-> "stop", paired |-> TRUE]
                   /\ last' = Observe("zb_simple_desc_cb", outcome, r.ret)
                   /\ args' = simple_desc
                   /\ stack_calls' = <<>>
                   /\ transitions' = <<>>
                   /\ UNCHANGED <<s_nvs_handle, s_network_ready,
                                  s_zigbee_state, s_finder_timer,
                                  s_finder_elapsed_sec, s_finder_complete,
                                  s_device_paired_during_finder, s_tuya_seq,
                                  bdb, factory_new, reportVars, finderTicks,
                                  nvsFaults, formationFailures, commands,
                                  cmd_task, tuya_prev_seq, timerVars>>
           ELSE zb_simple_desc_cb(req, zdo_status, simple_desc, NoFault)

\* stop_finder_mode: if (s_finder_timer)
Race_stop_finder_mode_test(t) ==
    /\ TaskOf(t).pc = "stop"
    /\ SetTask(t, [TaskOf(t) EXCEPT
                      !.pc = IF s_finder_timer THEN "delete" ELSE "flags"])
    /\ UNCHANGED <<s_zigbee_state, s_finder_timer, s_finder_complete,
                   s_device_paired_during_finder, finder_timer_deletes,
                   last, stack_calls, transitions, args>>
    /\ StopFrame

\* stop_finder_mode: esp_timer_stop, esp_timer_delete, s_finder_timer = NULL
Race_stop_finder_mode_delete(t) ==
    /\ TaskOf(t).pc = "delete"
    /\ finder_timer_deletes' = finder_timer_deletes + 1
    /\ s_finder_timer' = FALSE
    /\ SetTask(t, [TaskOf(t) EXCEPT !.pc = "flags"])
    /\ UNCHANGED <<s_zigbee_state, s_finder_complete,
                   s_device_paired_during_finder, last, stack_calls,
                   transitions, args>>
    /\ StopFrame

\* stop_finder_mode: the two flags and the state, and the handler returns
Race_stop_finder_mode_flags(t) ==
    /\ TaskOf(t).pc = "flags"
    /\ s_device_paired_during_finder' = TaskOf(t).paired
    /\ s_finder_complete' = TRUE
    /\ s_zigbee_state' = ZIGBEE_STATE_READY
    /\ transitions' = <<ZIGBEE_STATE_READY>>
    /\ SetTask(t, IdleTask)
    /\ last' = Observe(HandlerOf(t), "stopped", "none")
    /\ stack_calls' = <<>>
    /\ args' = <<>>
    /\ UNCHANGED <<s_finder_timer, finder_timer_deletes>>
    /\ StopFrame

\* a join announcement, between two callbacks of "zigbee_main"
Idle_DEVICE_ANNCE(ieee_addr, device_short_addr) ==
    /\ zb_task.pc = "idle"
    /\ Signal_DEVICE_ANNCE(ieee_addr, device_short_addr, NoFault)

\* an endpoint answer, between two callbacks of "zigbee_main"
Idle_zb_active_ep_cb(req, zdo_status) ==
    /\ zb_task.pc = "idle"
    /\ zb_active_ep_cb(req, zdo_status)

FinderRaceNext ==
    \/ BringUp
    \/ \E i \in Ieee, a \in ShortAddrs : Idle_DEVICE_ANNCE(i, a)
    \/ \E r \in Requests, z \in ZdpStatuses : Idle_zb_active_ep_cb(r, z)
    \/ \E r \in Requests, z \in ZdpStatuses : Race_zb_simple_desc_cb(r, z)
    \/ Race_finder_mode_timer_callback
    \/ \E t \in FinderTasks : Race_stop_finder_mode_test(t)
    \/ \E t \in FinderTasks : Race_stop_finder_mode_delete(t)
    \/ \E t \in FinderTasks : Race_stop_finder_mode_flags(t)

FinderRaceSpec == Init /\ [][FinderRaceNext]_vars

(***************************************************************************)
(* C32. A finder tick overlapping a classification callback.               *)
(***************************************************************************)
\* C32: in every interleaving of a finder tick and a classification callback
\* the finder timer is stopped and deleted once, and once a device registered
\* during the session has set the paired flag, the tick does not clear it
C32_FinderEndedOnce ==
    /\ [](finder_timer_deletes <= 1)
    /\ [][(s_device_paired_during_finder /\ timer_task.pc = "flags"
              /\ timer_task'.pc = "idle")
          => s_device_paired_during_finder']_vars

(***************************************************************************)
(* C33. The discovery context while two devices join.                      *)
(***************************************************************************)
\* C33: in every interleaving of announcements and query callbacks, the
\* device named by the discovery context is the device that answered: the
\* simple descriptor query carrying an endpoint of a device's list goes to
\* that device, and a record is inserted under the short address and
\* ieee_address of the device whose simple descriptor gave its kind
C33_ContextIdentity ==
    [][/\ \A r \in Requests, z \in ZdpStatuses :
              (zb_active_ep_cb(r, z) /\ last'.ret = "queried")
                  => s_discovery_ctx.ieee_addr = r.ieee
       /\ \A r \in Requests, z \in ZdpStatuses :
              (zb_simple_desc_cb(r, z, DescriptorOf(r.ieee), NoFault)
                  /\ last'.ret = "added")
                  => s_discovery_ctx.ieee_addr = r.ieee]_vars

(***************************************************************************)
(* C34. Every classified device ends up in the registry.                   *)
(***************************************************************************)
\* the stack delivers the successful answer of a pending endpoint query
AnswerActiveEp == \E r \in Requests : zb_active_ep_cb(r, "SUCCESS")

\* the stack delivers the successful answer of a pending descriptor query
AnswerSimpleDesc ==
    \E r \in Requests :
        zb_simple_desc_cb(r, "SUCCESS", DescriptorOf(r.ieee), NoFault)

\* devices joining a network whose ZDO queries all succeed
AnsweredNext ==
    \/ BringUp
    \/ FinderTimer
    \/ \E i \in Ieee, a \in ShortAddrs : Signal_DEVICE_ANNCE(i, a, NoFault)
    \/ AnswerActiveEp
    \/ AnswerSimpleDesc

\* the stack delivers every signal and every answer; a device announces
\* when it likes
AnsweredSpec ==
    /\ Init
    /\ [][AnsweredNext]_vars
    /\ WF_vars(BringUp)
    /\ WF_vars(FinderTimer)
    /\ WF_vars(AnswerActiveEp)
    /\ WF_vars(AnswerSimpleDesc)

\* new device i has announced and answered its endpoint query, and its
\* simple descriptor, which holds a recognised cluster, is about to arrive
Classifiable(i) ==
    /\ FindIeee(s_devices, zigbee_devices_get_count, i, 0) < 0
    /\ BagIn(SimpleDescReq(i, EndpointsOf(i)[1]), zdo_pending)
    /\ DetectedType(DescriptorOf(i)) # ZIGBEE_DEVICE_TYPE_UNKNOWN

\* C34: a new device whose announcement is followed by a successful endpoint
\* answer and a successful simple descriptor with a recognised cluster is
\* eventually in the registry, unless the registry is full
C34_EventuallyRegistered ==
    \A i \in Ieee :
        Classifiable(i) ~>
            (\/ FindIeee(s_devices, zigbee_devices_get_count, i, 0) >= 0
             \/ s_device_count = ZIGBEE_MAX_DEVICES)

(***************************************************************************)
(* C35. Periodic firings until the finder timeout.                         *)
(***************************************************************************)
\* firings of the periodic finder timer in this session: the runs of
\* finder_mode_timer_callback but the one start_finder_mode makes itself
PeriodicFirings == finderTicks - 1

\* the last step was a finder tick that ended finder mode by timeout
TimedOut ==
    /\ last.op = "finder_mode_timer_callback"
    /\ transitions = <<ZIGBEE_STATE_READY>>
    /\ ~s_device_paired_during_finder

\* C35: the elapsed counter is 0 when start_finder_mode has started the
\* periodic timer, and with an empty registry finder mode does not end by
\* timeout before the periodic timer has fired 12 times
C35_TwelvePeriodicFirings ==
    /\ (last.op \in {"DEVICE_START", "STEERING"} /\ s_finder_timer)
          => s_finder_elapsed_sec = 0
    /\ TimedOut => PeriodicFirings >= FinderTicksToTimeout

(***************************************************************************)
(* C36. Finder-complete and the bring-up state.                            *)
(***************************************************************************)
\* C36: in every reachable state finder-complete is set only if the
\* bring-up state is READY or FAILED
C36_CompleteOnlyWhenSettled ==
    s_finder_complete =>
        s_zigbee_state \in {ZIGBEE_STATE_READY, ZIGBEE_STATE_FAILED}

C38_ErrorLeavesMemory ==
    [][(/\ last'.op \in {"zigbee_devices_add", "zigbee_devices_remove"}
        /\ last'.ret # ESP_OK)
       => (s_devices' = s_devices /\ s_device_count' = s_device_count)]_vars

(***************************************************************************)
(* A power loss during zigbee_devices_save.  nvs_set_u8 and nvs_set_blob   *)
(* reach the flash one after the other, so a save that is cut short leaves *)
(* the store as a failed write at the same place does.                     *)
(***************************************************************************)
\* the registry as a value: the records of the slots below the count
Registry(devs, n) == [i \in {j \in Slots : j < n} |-> devs[i]]

\* the writes after which a save can be cut: the count and the first
\* f.index records, or all records without the commit
CutPoints == {f \in Faults : f.kind \in {"blob", "commit"}}

\* the power is lost inside the save of a mutation whose result is r: the
\* store keeps the writes made, the statics are zeroed by the reboot
PowerLoss(op, r) ==
    /\ r.ret = ESP_FAIL
    /\ nvs' = r.nvs
    /\ last' = Observe("power_loss", op, "none")
    /\ args' = [before |-> Registry(s_devices, s_device_count),
                after |-> Registry(r.devices, r.count)]
    /\ s_devices' = [i \in Slots |-> ZeroDevice]
    /\ s_device_count' = 0
    /\ s_nvs_handle' = 0
    /\ s_network_ready' = FALSE
    /\ s_zigbee_state' = ZIGBEE_STATE_INITIALIZING
    /\ s_finder_timer' = FALSE
    /\ s_finder_elapsed_sec' = 0
    /\ s_finder_complete' = FALSE
    /\ s_device_paired_during_finder' = FALSE
    /\ s_discovery_ctx' = ZeroCtx
    /\ s_tuya_seq' = 0
    /\ s_blind_position_percent' = 0
    /\ s_blind_position_known' = FALSE
    /\ tuya_prev_seq' = -1
    /\ s_scan_timer' = FALSE
    /\ s_scan_interval_sec' = 0
    /\ scan_timers_live' = 0
    /\ timer_task' = IdleTask
    /\ finder_timer_deletes' = 0
    /\ commands' = 0
    /\ bdb' = "off"
    /\ zdo_pending' = EmptyBag
    /\ stack_calls' = <<>>
    /\ transitions' = <<>>
    /\ finderTicks' = 0
    /\ ctxUpserts' = 0
    /\ UNCHANGED <<taskVars, factory_new, formationFailures>>

\* zigbee_devices_add, cut inside its save
PowerLoss_zigbee_devices_add(device, f) ==
    /\ FaultAllowed(f)
    /\ FaultCounted(f)
    /\ PowerLoss("zigbee_devices_add",
                 zigbee_devices_add(s_devices, s_device_count, s_nvs_handle,
                                    nvs, device, f))

\* zigbee_devices_remove, cut inside its save
PowerLoss_zigbee_devices_remove(short_addr, f) ==
    /\ FaultAllowed(f)
    /\ FaultCounted(f)
    /\ PowerLoss("zigbee_devices_remove",
                 zigbee_devices_remove(s_devices, s_device_count,
                                       s_nvs_handle, nvs, short_addr, f))

\* the registry API with writes that succeed, and power losses inside a
\* save (counted as failed writes, at most MaxNvsFaults of them)
PowerLossNext ==
    \/ Call_zigbee_hub_init
    \/ \E d \in ApiDevices : Call_zigbee_devices_add(d, NoFault)
    \/ \E a \in ShortAddrs : Call_zigbee_devices_remove(a, NoFault)
    \/ \E d \in ApiDevices, f \in CutPoints : PowerLoss_zigbee_devices_add(d, f)
    \/ \E a \in ShortAddrs, f \in CutPoints :
          PowerLoss_zigbee_devices_remove(a, f)

PowerLossSpec == Init /\ [][PowerLossNext]_vars

(***************************************************************************)
(* C39. The registry loaded after an interrupted save.                     *)
(***************************************************************************)
\* C39: the load that follows a save cut by a restart yields a registry
\* without duplicate ieee_address and with at most ZIGBEE_MAX_DEVICES
\* records, equal to the registry before the mutation or to the one after it
C39_LoadAfterPowerLoss ==
    [][(last.op = "power_loss" /\ last'.op = "zigbee_hub_init")
       => /\ \A i, j \in Slots :
                 (i < j /\ j < s_device_count')
                     => s_devices'[i].ieee_addr # s_devices'[j].ieee_addr
          /\ s_device_count' <= ZIGBEE_MAX_DEVICES
          /\ Registry(s_devices', s_device_count')
                 \in {args.before, args.after}]_vars
=============================================================================
